---- MODULE Spec2Model ----
(***************************************************************************)
(* systemd-boot-friend: kernel identification and boot-entry lifecycle.    *)
(*                                                                         *)
(* The repository holds two implementations of a kernel's operations:      *)
(*   "kernel_rs" : the struct Kernel of src/src/kernel.rs                  *)
(*   "generic"   : GenericKernel of src/src/kernel/generic_kernel.rs, with *)
(*                 the verified copy of src/src/kernel/mod.rs              *)
(* and two update procedures over the trait Kernel, which GenericKernel    *)
(* implements:                                                             *)
(*   "main"      : update of src/src/main.rs                               *)
(*   "manager"   : KernelManager::update of src/src/kernel_manager.rs      *)
(* The variable gen says which implementation a behaviour runs, the        *)
(* variable driver which update procedure an update runs.                  *)
(*                                                                         *)
(* Text is a tuple of one-character strings.  An Option is a tuple of      *)
(* length 0 (None) or 1 (Some).  A u64 is kept as its canonical decimal    *)
(* digits, so that no width is lost and Display is exact.                  *)
(***************************************************************************)
EXTENDS Integers, Sequences, FiniteSets, TLC

\* ------------------------------------------------------------------ text

None == <<>>
Some(x) == <<x>>
IsSome(o) == Len(o) = 1
Unwrap(o) == o[1]

\* The bytes that occur in the modelled names, in ASCII order.
Chars ==
    << " ", "(", ")", "+", "-", ".", "/",
       "0", "1", "2", "3", "4", "5", "6", "7", "8", "9",
       "E", "F", "I", "L", "N", "O", "R", "S", "V", "_",
       "a", "b", "c", "d", "e", "f", "g", "h", "i", "j", "k", "l", "m",
       "n", "o", "p", "q", "r", "s", "t", "u", "v", "w", "x", "y", "z",
       "{", "}" >>

CharSet == { Chars[i] : i \in 1..Len(Chars) }
CodeOf == [c \in CharSet |-> CHOOSE i \in 1..Len(Chars) : Chars[i] = c]
Code(c) == CodeOf[c]

Digits == {"0", "1", "2", "3", "4", "5", "6", "7", "8", "9"}

Drop(s, n) == SubSeq(s, n + 1, Len(s))
Take(s, n) == SubSeq(s, 1, n)

StartsWith(s, p) == Len(s) >= Len(p) /\ Take(s, Len(p)) = p

\* Position of the first occurrence of p in s, 0 when there is none.
Find(s, p) ==
    LET hits == { i \in 1..(Len(s) - Len(p) + 1) : SubSeq(s, i, i + Len(p) - 1) = p }
    IN  IF hits = {} THEN 0 ELSE CHOOSE i \in hits : \A j \in hits : i <= j

\* str::cmp: bytewise lexicographic; -1, 0, 1.
RECURSIVE StrCmp(_, _)
StrCmp(a, b) ==
    IF a = <<>> /\ b = <<>> THEN 0
    ELSE IF a = <<>> THEN -1
    ELSE IF b = <<>> THEN 1
    ELSE IF Code(a[1]) < Code(b[1]) THEN -1
    ELSE IF Code(a[1]) > Code(b[1]) THEN 1
    ELSE StrCmp(Tail(a), Tail(b))

\* str::replace(from, to): every non-overlapping occurrence, left to right.
RECURSIVE Replace(_, _, _)
Replace(s, from, to) ==
    LET i == Find(s, from)
    IN  IF i = 0 THEN s
        ELSE Take(s, i - 1) \o to \o Replace(Drop(s, i - 1 + Len(from)), from, to)

\* ------------------------------------------------------------------ u64

U64Max == <<"1","8","4","4","6","7","4","4","0","7","3","7","0","9","5","5","1","6","1","5">>

RECURSIVE StripZeros(_)
StripZeros(d) ==
    IF Len(d) > 1 /\ d[1] = "0" THEN StripZeros(Tail(d)) ELSE d

\* Ordering of two canonical u64s.
NumCmp(a, b) ==
    IF Len(a) < Len(b) THEN -1
    ELSE IF Len(a) > Len(b) THEN 1
    ELSE StrCmp(a, b)

\* str::parse::<u64>: an optional '+', then one or more digits, no overflow.
ParseU64(s) ==
    LET body == IF s # <<>> /\ s[1] = "+" THEN Tail(s) ELSE s
        val  == StripZeros(body)
    IN  IF body = <<>> \/ \E i \in 1..Len(body) : body[i] \notin Digits
        THEN [ok |-> FALSE, val |-> <<>>]
        ELSE IF NumCmp(val, U64Max) = 1
        THEN [ok |-> FALSE, val |-> <<>>]
        ELSE [ok |-> TRUE, val |-> val]

\* ------------------------------------------------------------------ parser.rs

Fail == [ok |-> FALSE, val |-> <<>>, rest |-> <<>>]
Ok(v, rest) == [ok |-> TRUE, val |-> v, rest |-> rest]

\* Number of leading digits of s.
RECURSIVE LeadingDigits(_)
LeadingDigits(s) ==
    IF s # <<>> /\ s[1] \in Digits THEN 1 + LeadingDigits(Tail(s)) ELSE 0

\* nom digit1: one or more digits.
digit1(input) ==
    LET n == LeadingDigits(input)
    IN  IF n = 0 THEN Fail ELSE Ok(Take(input, n), Drop(input, n))

\* nom tag(t)
tag(t, input) ==
    IF StartsWith(input, t) THEN Ok(t, Drop(input, Len(t))) ELSE Fail

\* nom take_until(t): the text before the first t; fails when there is none.
take_until(t, input) ==
    LET i == Find(input, t)
    IN  IF i = 0 THEN Fail ELSE Ok(Take(input, i - 1), Drop(input, i - 1))

version_digit(input) ==
    LET d == digit1(input)
        n == ParseU64(d.val)
    IN  IF d.ok /\ n.ok THEN Ok(n.val, d.rest) ELSE Fail

digit_after_dot(input) ==
    LET t == tag(<<".">>, input)
    IN  IF t.ok THEN version_digit(t.rest) ELSE Fail

rc(input) ==
    LET t == tag(<<"-">>, input)
        r == tag(<<"r", "c">>, t.rest)
        d == digit1(r.rest)
    IN  IF t.ok /\ r.ok /\ d.ok THEN Ok(r.val \o d.val, d.rest) ELSE Fail

rel(input) ==
    LET t == tag(<<"-">>, input)
        u == take_until(<<"-">>, t.rest)
        n == ParseU64(u.val)
    IN  IF t.ok /\ u.ok /\ n.ok THEN Ok(n.val, u.rest) ELSE Fail

\* nom opt(p): None and nothing consumed when p fails.
opt(r, input) == IF r.ok THEN Ok(Some(r.val), r.rest) ELSE Ok(None, input)

\* tuple((version_digit, digit_after_dot, opt(digit_after_dot), opt(rc), opt(rel))):
\* each parser runs on what the one before it left; the rest is the localversion.
version_build(ma, mi, pa, rr, re) ==
    IF ma.ok /\ mi.ok
    THEN Ok([major |-> ma.val, minor |-> mi.val,
             patch |-> IF IsSome(pa.val) THEN Unwrap(pa.val) ELSE <<"0">>,
             rc |-> rr.val, rel |-> re.val, localversion |-> re.rest],
            re.rest)
    ELSE Fail

version_rel(ma, mi, pa, rr) == version_build(ma, mi, pa, rr, opt(rel(rr.rest), rr.rest))

version_rc(ma, mi, pa) == version_rel(ma, mi, pa, opt(rc(pa.rest), pa.rest))

\* A version whose patch level is not optional.
version_patch_required(ma, mi) ==
    IF mi.ok /\ digit_after_dot(mi.rest).ok
    THEN version_rc(ma, mi, opt(digit_after_dot(mi.rest), mi.rest))
    ELSE Fail

version_patch(ma, mi) == version_rc(ma, mi, opt(digit_after_dot(mi.rest), mi.rest))

version_minor(ma) == version_patch(ma, digit_after_dot(ma.rest))

version(input) == version_minor(version_digit(input))

\* .map(|(_, version)| version): the rest is dropped.
Parsed_(r) == [ok |-> r.ok, val |-> r.val]

VersionParse(input) == Parsed_(version(input))

\* A Display that writes the release counter before the release-candidate tag.
VersionDisplayRelFirst(v) ==
    v.major \o <<".">> \o v.minor \o <<".">> \o v.patch
      \o (IF IsSome(v.rel) THEN <<"-">> \o Unwrap(v.rel) ELSE <<>>)
      \o (IF IsSome(v.rc) THEN <<"-">> \o Unwrap(v.rc) ELSE <<>>)
      \o v.localversion

VersionDisplay(v) ==
    v.major \o <<".">> \o v.minor \o <<".">> \o v.patch
      \o (IF IsSome(v.rc) THEN <<"-">> \o Unwrap(v.rc) ELSE <<>>)
      \o (IF IsSome(v.rel) THEN <<"-">> \o Unwrap(v.rel) ELSE <<>>)
      \o v.localversion

\* Option<T>::cmp: None < Some, then the payloads.
OptCmp(a, b, Cmp(_, _)) ==
    IF ~IsSome(a) /\ ~IsSome(b) THEN 0
    ELSE IF ~IsSome(a) THEN -1
    ELSE IF ~IsSome(b) THEN 1
    ELSE Cmp(Unwrap(a), Unwrap(b))

\* An order that looks at the release-candidate tag before the patch level.
VersionCmpRcFirst(a, b) ==
    LET c1 == NumCmp(a.major, b.major)
        c2 == NumCmp(a.minor, b.minor)
        c3 == NumCmp(a.patch, b.patch)
        c4 == OptCmp(a.rc, b.rc, StrCmp)
        c5 == OptCmp(a.rel, b.rel, NumCmp)
        c6 == StrCmp(a.localversion, b.localversion)
    IN  IF c1 # 0 THEN c1 ELSE IF c2 # 0 THEN c2 ELSE IF c4 # 0 THEN c4
        ELSE IF c3 # 0 THEN c3 ELSE IF c5 # 0 THEN c5 ELSE c6

\* #[derive(Ord)] on Version: the fields in declaration order.
VersionCmp(a, b) ==
    LET c1 == NumCmp(a.major, b.major)
        c2 == NumCmp(a.minor, b.minor)
        c3 == NumCmp(a.patch, b.patch)
        c4 == OptCmp(a.rc, b.rc, StrCmp)
        c5 == OptCmp(a.rel, b.rel, NumCmp)
        c6 == StrCmp(a.localversion, b.localversion)
    IN  IF c1 # 0 THEN c1 ELSE IF c2 # 0 THEN c2 ELSE IF c3 # 0 THEN c3
        ELSE IF c4 # 0 THEN c4 ELSE IF c5 # 0 THEN c5 ELSE c6

\* ------------------------------------------------------------------ configuration

\* "{VERSION}"
VERSION == <<"{", "V", "E", "R", "S", "I", "O", "N", "}">>

\* Config::default(): vmlinux = "vmlinuz-{VERSION}"
ConfigVmlinux == <<"v", "m", "l", "i", "n", "u", "z", "-">> \o VERSION

\* Config::default(): initrd = "initramfs-{VERSION}.img"
ConfigInitrd ==
    <<"i", "n", "i", "t", "r", "a", "m", "f", "s", "-">> \o VERSION \o <<".", "i", "m", "g">>

\* UCODE = "intel-ucode.img"
UCODE == <<"i", "n", "t", "e", "l", "-", "u", "c", "o", "d", "e", ".", "i", "m", "g">>

DotConf == <<".", "c", "o", "n", "f">>

\* Config::read(): the profile "default" is always present in bootargs.
DefaultProfile == <<"d", "e", "f", "a", "u", "l", "t">>

\* The boot-argument profiles of the configuration (keys of config.bootargs).
Profiles == {DefaultProfile}

\* Config::default(): distro = "Linux"
Distro == <<"L", "i", "n", "u", "x">>

\* Config::keep: Option<usize>, None by default; no function reads it.
MaxKeep == 1
Keeps == {None} \cup { Some(n) : n \in 1..MaxKeep }

Gens == {"kernel_rs", "generic"}
Drivers == {"main", "manager"}

\* ------------------------------------------------------------------ kernels

\* A parse that fills the templates with the version as it displays.
KernelOfDisplayed(g, kernel_name, v) ==
    [ok |-> v.ok,
     val |-> [version |-> v.val,
              vmlinux |-> Replace(ConfigVmlinux, VERSION,
                                  IF v.ok THEN VersionDisplay(v.val) ELSE kernel_name),
              initrd  |-> Replace(ConfigInitrd, VERSION,
                                  IF v.ok THEN VersionDisplay(v.val) ELSE kernel_name),
              entry   |-> IF g = "kernel_rs" THEN kernel_name \o DotConf
                                             ELSE kernel_name]]

\* Kernel::parse / GenericKernel::parse: the file names and the entry id come
\* from the raw name, the version from the parser.
KernelOf(g, kernel_name, v) ==
    [ok |-> v.ok,
     val |-> [version |-> v.val,
              vmlinux |-> Replace(ConfigVmlinux, VERSION, kernel_name),
              initrd  |-> Replace(ConfigInitrd, VERSION, kernel_name),
              entry   |-> IF g = "kernel_rs" THEN kernel_name \o DotConf
                                             ELSE kernel_name]]

KernelParse(g, kernel_name) == KernelOf(g, kernel_name, VersionParse(kernel_name))

\* The kernel names of the model: the spec's scenario, and two builds that
\* share the numeric version and differ in the local suffix.
K1 == <<"5", ".", "1", "5", ".", "0", "-", "r", "c", "1", "-", "x">>
K2 == <<"5", ".", "1", "4", ".", "9", "-", "x">>
K3 == <<"5", ".", "1", "4", ".", "9", "-", "y">>
Pool == {K1, K2, K3}

\* The kernels of the pool as each generation parses them, computed once.
KernelTable == [g \in Gens, n \in Pool |-> KernelParse(g, n)]
Parsed(g, name) == IF name \in Pool THEN KernelTable[g, name] ELSE KernelParse(g, name)

\* An equality that looks at the numbers of the version alone.
KernelEqNumeric(a, b) ==
    /\ a.version.major = b.version.major
    /\ a.version.minor = b.version.minor
    /\ a.version.patch = b.version.patch

\* PartialEq: derived on kernel.rs Kernel (the remaining fields come from the
\* one configuration), written out on GenericKernel.
KernelEq(a, b) ==
    /\ a.version = b.version
    /\ a.vmlinux = b.vmlinux
    /\ a.initrd = b.initrd
    /\ a.entry = b.entry

\* Ord for Kernel / GenericKernel: the version alone.
KernelCmp(a, b) == VersionCmp(a.version, b.version)

\* slice::contains
Contains(list, k) == \E i \in 1..Len(list) : KernelEq(list[i], k)

\* profile.replace(' ', "_")
ProfileFile(profile) == Replace(profile, <<" ">>, <<"_">>)

\* The entry ids a kernel owns: one per kernel in kernel.rs, one per profile
\* ("{entry}-{profile}") in generic_kernel.rs; the file is the id + ".conf".
EntryId(g, k, profile) ==
    IF g = "kernel_rs" THEN k.entry ELSE k.entry \o <<"-">> \o ProfileFile(profile)

EntryFile(g, k, profile) ==
    IF g = "kernel_rs" THEN k.entry ELSE EntryId(g, k, profile) \o DotConf

\* The value set_default stores in the default pointer.
DefaultId(g, k) ==
    IF g = "kernel_rs" THEN k.entry ELSE k.entry \o <<"-">> \o DefaultProfile \o DotConf

\* Vec::sort_by(|a, b| b.cmp(a)): stable, newest first.
RECURSIVE InsertDesc(_, _)
InsertDesc(sorted, k) ==
    IF sorted = <<>> THEN <<k>>
    ELSE IF KernelCmp(Head(sorted), k) >= 0
         THEN <<Head(sorted)>> \o InsertDesc(Tail(sorted), k)
         ELSE <<k>> \o sorted

RECURSIVE SortDesc(_)
SortDesc(list) ==
    IF list = <<>> THEN <<>>
    ELSE InsertDesc(SortDesc(SubSeq(list, 1, Len(list) - 1)), list[Len(list)])

\* ------------------------------------------------------------------ files

\* A directory is a function from the names of its files to their contents.
NoFiles == [n \in {} |-> <<>>]
Exists(dir, name) == name \in DOMAIN dir
Put(dir, name, data) ==
    [n \in DOMAIN dir \cup {name} |-> IF n = name THEN data ELSE dir[n]]
Del(dir, name) == [n \in DOMAIN dir \ {name} |-> dir[n]]
Read(dir, name) == IF Exists(dir, name) THEN Some(dir[name]) ELSE None

Min(a, b) == IF a < b THEN a ELSE b

\* What a transfer does: "full" completes, "short" reports fewer bytes than
\* the source holds, "err" fails after n bytes.
IoFull == [kind |-> "full", n |-> 0]

\* std::fs::copy(src, dst) -> io::Result<u64>, on contents (None: no file).
fs_copy(src, dst, io) ==
    IF ~IsSome(src) THEN [dst |-> dst, ok |-> FALSE, n |-> 0]
    ELSE LET data == Unwrap(src)
             n    == Min(io.n, Len(data))
         IN  IF io.kind = "full" \/ (io.kind = "short" /\ n = Len(data))
             THEN [dst |-> Some(data), ok |-> TRUE, n |-> Len(data)]
             ELSE [dst |-> Some(Take(data, n)), ok |-> io.kind = "short", n |-> n]

\* same_files: the SHA-256 digests agree exactly when the contents do.
same_files(file1, file2) ==
    IF IsSome(file1) /\ IsSome(file2)
    THEN [ok |-> TRUE, val |-> Unwrap(file1) = Unwrap(file2)]
    ELSE [ok |-> FALSE, val |-> FALSE]

\* safe_copy (the file_copy that GenericKernel::install calls), on contents:
\*   dest.exists() && !same_files(src, dest)? && len(src) != fs::copy(src, dest)?
\* then remove_file(dest) and the no-space error.  wrote: fs::copy was called;
\* n: the bytes it wrote to dest.
safe_copy(src, dst, io) ==
    IF ~IsSome(dst) THEN [dst |-> dst, res |-> "ok", wrote |-> FALSE, n |-> 0]
    ELSE LET same == same_files(src, dst)
             c    == fs_copy(src, dst, io)
         IN  IF ~same.ok
             THEN [dst |-> dst, res |-> "err_io", wrote |-> FALSE, n |-> 0]
             ELSE IF same.val
             THEN [dst |-> dst, res |-> "ok", wrote |-> FALSE, n |-> 0]
             ELSE IF ~c.ok
             THEN [dst |-> c.dst, res |-> "err_io", wrote |-> TRUE, n |-> c.n]
             ELSE IF Len(Unwrap(src)) # c.n
             THEN [dst |-> None, res |-> "no_space", wrote |-> TRUE, n |-> c.n]
             ELSE [dst |-> c.dst, res |-> "ok", wrote |-> TRUE, n |-> c.n]

\* A directory after one of its files became `content` (None: deleted).
Store(dir, name, content) ==
    IF IsSome(content) THEN Put(dir, name, Unwrap(content)) ELSE Del(dir, name)

\* ------------------------------------------------------------------ the ESP and the loader store

\* The world an operation acts on:
\*   boot          /boot, the source files                    (name -> bytes)
\*   destDir, dest {esp}/EFI/systemd-boot-friend/ and its files (name -> bytes)
\*   entriesDir, entries  {esp}/loader/entries/ and its files   (name -> lines)
\*   loaderDefault the default pointer in {esp}/loader/loader.conf
\*   sbconf        the in-memory store shared by every GenericKernel of a run:
\*                 config.default and the entries vector
\*   bootargs      the profiles of the configuration, in the order the
\*                 HashMap of this process iterates them
Result(w, res) == [w |-> w, res |-> res]

\* The lines of an entry: title, linux, initrd (microcode), initrd, options.
\* A path is kept as the file's name inside REL_DEST_PATH.
Line(t, v) == [t |-> t, v |-> v]

EntryLines(w, k, title) ==
    <<Line("title", title), Line("linux", k.vmlinux)>>
      \o (IF Exists(w.dest, UCODE) THEN <<Line("initrd", UCODE)>> ELSE <<>>)
      \o (IF Exists(w.dest, k.initrd) THEN <<Line("initrd", k.initrd)>> ELSE <<>>)
      \o <<Line("options", <<>>)>>

\* ------------------------------------------------------------------ kernel.rs

\* Kernel::install: raw fs::copy of the image (fatal) and of the initrd
\* (errors dropped), then the microcode.
Kernel_install_ucode(w, d2, c3) ==
    IF ~Exists(w.boot, UCODE) THEN Result([w EXCEPT !.dest = Del(d2, UCODE)], "ok")
    ELSE Result([w EXCEPT !.dest = Store(d2, UCODE, c3.dst)],
                IF c3.ok THEN "ok" ELSE "err_io")

Kernel_install_initrd(w, k, ios, d1, c2) ==
    Kernel_install_ucode(w, Store(d1, k.initrd, c2.dst),
        fs_copy(Read(w.boot, UCODE), Read(Store(d1, k.initrd, c2.dst), UCODE), ios.ucode))

Kernel_install_vmlinux(w, k, ios, c1) ==
    IF ~c1.ok THEN Result([w EXCEPT !.dest = Store(@, k.vmlinux, c1.dst)], "err_io")
    ELSE Kernel_install_initrd(w, k, ios, Store(w.dest, k.vmlinux, c1.dst),
             fs_copy(Read(w.boot, k.initrd),
                     Read(Store(w.dest, k.vmlinux, c1.dst), k.initrd), ios.initrd))

Kernel_install(w, k, ios) ==
    IF ~w.destDir THEN Result(w, "err_path")
    ELSE Kernel_install_vmlinux(w, k, ios,
             fs_copy(Read(w.boot, k.vmlinux), Read(w.dest, k.vmlinux), ios.vmlinux))

\* "{distro} ({kernel})"; a Kernel displays as its version.
KernelTitle(k) == Distro \o <<" ", "(">> \o VersionDisplay(k.version) \o <<")">>

\* Kernel::make_config: File::create, then the lines through a BufWriter whose
\* final flush (on drop) reports nothing.  overwrite is the answer to the prompt.
Kernel_write_entry(w, k, lines, io) ==
    IF io.kind = "err" THEN Result(w, "err_io")
    ELSE IF io.kind = "short"
         THEN Result([w EXCEPT !.entries =
                          Put(@, k.entry, Take(lines, Min(io.n, Len(lines))))], "ok")
         ELSE Result([w EXCEPT !.entries = Put(@, k.entry, lines)], "ok")

Kernel_make_config(w, k, force_write, overwrite, io) ==
    IF ~w.entriesDir THEN Result(w, "err_path")
    ELSE IF Exists(w.entries, k.entry) /\ ~force_write /\ ~overwrite THEN Result(w, "ok")
    ELSE Kernel_write_entry(w, k, EntryLines(w, k, KernelTitle(k)), io)

\* Kernel::remove_default: a fresh SystemdBootConf is read from the ESP each
\* time; cfg = "err" is the read (or the write back) failing.
Kernel_remove_default(w, k, cfg) ==
    IF cfg = "err" THEN Result(w, "err_io")
    ELSE IF w.loaderDefault = Some(k.entry)
         THEN Result([w EXCEPT !.loaderDefault = None], "ok")
         ELSE Result(w, "ok")

\* Kernel::set_default
Kernel_set_default(w, k, cfg) ==
    IF cfg = "err" THEN Result(w, "err_io")
    ELSE Result([w EXCEPT !.loaderDefault = Some(k.entry)], "ok")

\* Kernel::remove: the image and the entry file with `?`, the initrd with .ok().
Kernel_remove_entry(w1, k, cfg) ==
    IF ~Exists(w1.entries, k.entry) THEN Result(w1, "err_io")
    ELSE Kernel_remove_default([w1 EXCEPT !.entries = Del(@, k.entry)], k, cfg)

Kernel_remove(w, k, cfg) ==
    IF ~Exists(w.dest, k.vmlinux) THEN Result(w, "err_io")
    ELSE Kernel_remove_entry([w EXCEPT !.dest = Del(Del(@, k.vmlinux), k.initrd)], k, cfg)

\* Kernel::install_and_make_config
Kernel_then_make_config(i, k, force_write, overwrite, io) ==
    IF i.res # "ok" THEN i
    ELSE Kernel_make_config(i.w, k, force_write, overwrite, io)

Kernel_install_and_make_config(w, k, force_write, overwrite, ios) ==
    Kernel_then_make_config(Kernel_install(w, k, ios), k, force_write, overwrite, ios.entry)

\* ------------------------------------------------------------------ kernel/generic_kernel.rs

\* file_copy(src_path.join(name), dest_path.join(name)) on the world.
Copied(w, name, c) == Result([w EXCEPT !.dest = Store(@, name, c.dst)], c.res)

FileCopy(w, name, io) == Copied(w, name, safe_copy(Read(w.boot, name), Read(w.dest, name), io))

\* GenericKernel::install
GenericKernel_install_ucode(ios, c2) ==
    IF c2.res # "ok" THEN c2
    ELSE IF Exists(c2.w.boot, UCODE) THEN FileCopy(c2.w, UCODE, ios.ucode)
    ELSE Result([c2.w EXCEPT !.dest = Del(@, UCODE)], "ok")

\* An install that copies the initrd without looking for its source.
GenericKernel_install_initrd_always(k, ios, c1) ==
    IF c1.res # "ok" THEN c1
    ELSE GenericKernel_install_ucode(ios, FileCopy(c1.w, k.initrd, ios.initrd))

GenericKernel_install_initrd(k, ios, c1) ==
    IF c1.res # "ok" THEN c1
    ELSE GenericKernel_install_ucode(ios,
             IF Exists(c1.w.boot, k.initrd) THEN FileCopy(c1.w, k.initrd, ios.initrd)
             ELSE c1)

\* An install that does not look for the install directory.
GenericKernel_install_unchecked(w, k, ios) ==
    GenericKernel_install_initrd(k, ios, FileCopy(w, k.vmlinux, ios.vmlinux))

GenericKernel_install(w, k, ios) ==
    IF ~w.destDir THEN Result(w, "err_path")
    ELSE GenericKernel_install_initrd(k, ios, FileCopy(w, k.vmlinux, ios.vmlinux))

\* "{distro} ({kernel}) ({profile})"; a GenericKernel displays as its version.
GenericTitle(k, profile) ==
    Distro \o <<" ", "(">> \o VersionDisplay(k.version) \o <<")", " ", "(">>
      \o profile \o <<")">>

\* The entries make_config pushes for k, one per profile.
\* profiles is what bootargs.iter() yields: the keys of a HashMap, in the
\* order of the process.
ProfileEntries(w, k, profiles) ==
    [i \in 1..Len(profiles) |->
        [id |-> k.entry \o <<"-">> \o ProfileFile(profiles[i]),
         tokens |-> EntryLines(w, k, GenericTitle(k, profiles[i]))]]

\* SystemdBootConf::write_entries: every entry of the store is written to
\* {id}.conf, in order; io = "err" fails after the first n of them.
RECURSIVE WriteAll(_, _)
WriteAll(dir, entries) ==
    IF entries = <<>> THEN dir
    ELSE WriteAll(Put(dir, Head(entries).id \o DotConf, Head(entries).tokens), Tail(entries))

write_entries(w, io) ==
    IF io.kind = "full"
    THEN Result([w EXCEPT !.entries = WriteAll(@, w.sbconf.entries)], "ok")
    ELSE Result([w EXCEPT !.entries =
                     WriteAll(@, Take(w.sbconf.entries,
                                      Min(io.n, Len(w.sbconf.entries) - 1)))], "err_io")

\* GenericKernel::make_config: the existence test is on entries_path.join(entry),
\* the entry id without profile and without ".conf".
GenericKernel_make_config(w, k, force_write, overwrite, io) ==
    IF ~w.entriesDir THEN Result(w, "err_path")
    ELSE IF Exists(w.entries, k.entry) /\ ~force_write /\ ~overwrite THEN Result(w, "ok")
    ELSE write_entries(
             [w EXCEPT !.sbconf.entries = @ \o ProfileEntries(w, k, w.bootargs)], io)

\* SystemdBootConf::write_config: the default pointer of the store goes to loader.conf.
write_config(w, cfg) ==
    IF cfg = "err" THEN Result(w, "err_io")
    ELSE Result([w EXCEPT !.loaderDefault = w.sbconf.default], "ok")

\* GenericKernel::set_default
GenericKernel_set_default(w, k, cfg) ==
    write_config([w EXCEPT !.sbconf.default =
                      Some(k.entry \o <<"-">> \o DefaultProfile \o DotConf)], cfg)

\* A remove_default that clears the pointer whatever it names.
GenericKernel_clear_default(w, k, cfg) == write_config([w EXCEPT !.sbconf.default = None], cfg)

\* GenericKernel::remove_default
GenericKernel_remove_default(w, k, cfg) ==
    IF w.sbconf.default = Some(k.entry \o <<"-">> \o DefaultProfile \o DotConf)
    THEN write_config([w EXCEPT !.sbconf.default = None], cfg)
    ELSE Result(w, "ok")

RECURSIVE DelEntries(_, _, _)
DelEntries(dir, k, profiles) ==
    IF profiles = {} THEN dir
    ELSE LET p == CHOOSE q \in profiles : TRUE
         IN  DelEntries(Del(dir, k.entry \o <<"-">> \o ProfileFile(p) \o DotConf),
                        k, profiles \ {p})

\* GenericKernel::remove: every deletion with .ok(), then remove_default()?.
GenericKernel_remove(w, k, cfg) ==
    GenericKernel_remove_default(
        [w EXCEPT !.dest = Del(Del(@, k.vmlinux), k.initrd),
                  !.entries = DelEntries(@, k, Profiles)], k, cfg)

\* GenericKernel::install_and_make_config
GenericKernel_then_make_config(i, k, force_write, overwrite, io) ==
    IF i.res # "ok" THEN i
    ELSE GenericKernel_make_config(i.w, k, force_write, overwrite, io)

GenericKernel_install_and_make_config(w, k, force_write, overwrite, ios) ==
    GenericKernel_then_make_config(GenericKernel_install(w, k, ios), k, force_write,
                                   overwrite, ios.entry)

\* ------------------------------------------------------------------ both generations

install_and_make_config(g, w, k, force_write, overwrite, ios) ==
    IF g = "kernel_rs"
    THEN Kernel_install_and_make_config(w, k, force_write, overwrite, ios)
    ELSE GenericKernel_install_and_make_config(w, k, force_write, overwrite, ios)

install(g, w, k, ios) ==
    IF g = "kernel_rs" THEN Kernel_install(w, k, ios) ELSE GenericKernel_install(w, k, ios)

make_config(g, w, k, force_write, overwrite, io) ==
    IF g = "kernel_rs" THEN Kernel_make_config(w, k, force_write, overwrite, io)
    ELSE GenericKernel_make_config(w, k, force_write, overwrite, io)

\* A remove that deletes the image and the initrd and leaves the entry files.
remove_images_only(g, w, k, cfg) ==
    IF g = "kernel_rs"
    THEN Kernel_remove_default([w EXCEPT !.dest = Del(Del(@, k.vmlinux), k.initrd)], k, cfg)
    ELSE GenericKernel_remove_default([w EXCEPT !.dest = Del(Del(@, k.vmlinux), k.initrd)],
                                      k, cfg)

remove(g, w, k, cfg) ==
    IF g = "kernel_rs" THEN Kernel_remove(w, k, cfg) ELSE GenericKernel_remove(w, k, cfg)

set_default(g, w, k, cfg) ==
    IF g = "kernel_rs" THEN Kernel_set_default(w, k, cfg)
    ELSE GenericKernel_set_default(w, k, cfg)

remove_default(g, w, k, cfg) ==
    IF g = "kernel_rs" THEN Kernel_remove_default(w, k, cfg)
    ELSE GenericKernel_remove_default(w, k, cfg)

\* ------------------------------------------------------------------ discovery

\* The marker files of a complete module tree.
Markers == {"modules.dep", "modules.order", "modules.builtin"}

\* The orders in which the elements of a set can be met.
RECURSIVE Orders(_)
Orders(names) ==
    IF names = {} THEN {<<>>}
    ELSE UNION { { <<n>> \o rest : rest \in Orders(names \ {n}) } : n \in names }

\* fs::read_dir: the names of a directory, in an order the file system chooses.
ReadDir(names) == Orders(names)

ParseEach(g, names) == [i \in 1..Len(names) |-> Parsed(g, names[i])]

Vals(rs) == [i \in 1..Len(rs) |-> rs[i].val]
IsOk(r) == r.ok

\* A test of completeness that looks for modules.dep alone.
CompleteByDep(w, dirs) == SelectSeq(dirs, LAMBDA n : "modules.dep" \in w.modules[n])

\* Kernel::list / GenericKernel::list: the complete module trees whose name parses.
Complete(w, dirs) == SelectSeq(dirs, LAMBDA n : w.modules[n] = Markers)

\* A list that keeps the order in which read_dir yields the directories.
list_unsorted(g, w, dir) ==
    Vals(SelectSeq(ParseEach(g, Complete(w, dir)), IsOk))

\* dir is what read_dir(MODULES_PATH) yields.
list(g, w, dir) ==
    SortDesc(Vals(SelectSeq(ParseEach(g, Complete(w, dir)), IsOk)))

\* What list can return for a module tree.
Lists(g, w) == { list(g, w, dir) : dir \in ReadDir(DOMAIN w.modules) }

\* The text the image template leaves for {VERSION}: what follows the first
\* occurrence of the template's prefix ("(?P<version>.+)", unanchored).
TemplatePrefix == Take(ConfigVmlinux, Find(ConfigVmlinux, VERSION) - 1)

CapturedAt(filename, i) ==
    IF i = 0 \/ i - 1 + Len(TemplatePrefix) >= Len(filename) THEN None
    ELSE Some(Drop(filename, i - 1 + Len(TemplatePrefix)))

Captured(filename) == CapturedAt(filename, Find(filename, TemplatePrefix))

\* Kernel::list_installed / GenericKernel::list_installed: a captured version
\* that does not parse fails the whole listing.
Matching(files) == SelectSeq(files, LAMBDA f : IsSome(Captured(f)))

CaptureEach(files) == [i \in 1..Len(files) |-> Unwrap(Captured(files[i]))]

AllOrNothing(parsed) ==
    IF \E i \in 1..Len(parsed) : ~parsed[i].ok
    THEN [ok |-> FALSE, val |-> <<>>]
    ELSE [ok |-> TRUE, val |-> SortDesc(Vals(parsed))]

\* dir is what read_dir of the install directory yields, when there is one.
list_installed(g, w, dir) ==
    AllOrNothing(ParseEach(g, CaptureEach(Matching(IF w.destDir THEN dir ELSE <<>>))))

\* What list_installed can return for an install directory: the files that
\* do not match are dropped from every order read_dir can yield, so the
\* orders of the matching files give every result.
InstalledLists(g, w) ==
    { list_installed(g, w, dir) :
        dir \in ReadDir({ f \in DOMAIN w.dest : IsSome(Captured(f)) }) }

\* SystemdBootConf::load: the default pointer and the entry files of the ESP.
LoadEach(w, names) ==
    [i \in 1..Len(names) |->
        [id |-> Take(names[i], Len(names[i]) - Len(DotConf)), tokens |-> w.entries[names[i]]]]

LoadEntries(w, dir) == LoadEach(w, dir)

\* What the store can hold after loading.
Stores(g, w) ==
    IF g = "generic" THEN { LoadEntries(w, dir) : dir \in ReadDir(DOMAIN w.entries) }
    ELSE {<<>>}

\* ------------------------------------------------------------------ the modelled system

\* Contents of a source file, and of an older file of the same name on the ESP.
FreshData == <<1, 2, 3>>
StaleData == <<9>>

\* Commands per behaviour.
MaxOps == 2
\* Injected I/O faults per behaviour.
MaxFaults == 1
\* What reaches a file in a faulty transfer: bytes of an image, lines of an entry.
PartialLen == 1
\* Longest file content, and calls per behaviour, when the verified copy runs alone.
MaxLen == 2
MaxCalls == 2

VARIABLES
    gen,                \* which implementation of the kernel operations runs
    w,                  \* the file systems and the loader store
    w0,                 \* w when the latest command started
    kernels,            \* the available list of the running process (newest first)
    installed_kernels,  \* its installed list (newest first)
    driver,             \* the update procedure of the latest update
    pc,                 \* "idle", or "update" while update runs
    phase, idx,         \* position of update: phase and item
    ops, faults,        \* commands run, faults injected
    events,             \* the kernel operations of the latest command, in order
    ret,                \* the latest command that returned, and its result
    setBy,              \* the kernel whose set_default last wrote the pointer in this run
    cp,                 \* the verified copy when it runs alone (CopySpec)
    pv,                 \* the names given to the parser, and what it made of them (ParseSpec)
    sel                 \* the target given to a command, and the kernel it selected (SelectSpec)

vars == <<gen, w, w0, kernels, installed_kernels, driver, pc, phase, idx, ops, faults,
          events, ret, setBy, cp, pv, sel>>

K(g, name) == Parsed(g, name).val

\* The states a kernel's files on the ESP start in: none; image, initrd and
\* entry; the same with an older image; image and initrd without the entry;
\* initrd and entry without the image.
EspKinds == {"absent", "installed", "stale", "noentry", "noimage"}
Damaged == {"stale", "noentry", "noimage"}
OneDamaged(st) ==
    \A a \in DOMAIN st, b \in DOMAIN st : st[a] \in Damaged /\ st[b] \in Damaged => a = b

\* /boot: image and initrd of every available kernel (K3 ships no initrd),
\* and the microcode image when ucode.
BootFiles(g, avail, ucode) ==
    LET names == { K(g, n).vmlinux : n \in avail }
                   \cup { K(g, n).initrd : n \in avail \ {K3} }
                   \cup (IF ucode THEN {UCODE} ELSE {})
    IN  [n \in names |-> FreshData]

\* The install directory for the kinds st gives the kernels.
DestFiles(g, st) ==
    LET imgs  == { n \in Pool : st[n] \in {"installed", "stale", "noentry"} }
        inits == { n \in Pool \ {K3} : st[n] \in {"installed", "stale", "noentry", "noimage"} }
        names == { K(g, n).vmlinux : n \in imgs } \cup { K(g, n).initrd : n \in inits }
    IN  [f \in names |->
            IF \E n \in imgs : f = K(g, n).vmlinux /\ st[n] = "stale"
            THEN StaleData ELSE FreshData]

\* The entries directory: the files make_config wrote for those kernels.
EntryOf(g, k, dest) ==
    EntryLines([dest |-> dest], k,
               IF g = "kernel_rs" THEN KernelTitle(k) ELSE GenericTitle(k, DefaultProfile))

EntryFiles(g, st, dest) ==
    LET with == { n \in Pool : st[n] \in {"installed", "stale", "noimage"} }
        name(n) == EntryFile(g, K(g, n), DefaultProfile)
    IN  [f \in { name(n) : n \in with } |->
            EntryOf(g, K(g, CHOOSE n \in with : name(n) = f), dest)]

\* The machine before the first command.
WorldOf(g, avail, ucode, dflt, dest, entries) ==
    [boot |-> BootFiles(g, avail, ucode),
     modules |-> [n \in avail |-> Markers],
     destDir |-> TRUE, dest |-> dest,
     entriesDir |-> TRUE,
     entries |-> entries,
     loaderDefault |-> dflt,
     sbconf |-> [default |-> None, entries |-> <<>>],
     bootargs |-> <<>>]

WorldWith(g, avail, st, ucode, dflt, dest) ==
    WorldOf(g, avail, ucode, dflt, dest, EntryFiles(g, st, dest))

World(g, avail, st, ucode, dflt) ==
    WorldWith(g, avail, st, ucode, dflt, DestFiles(g, st))

\* The orders in which a process can meet the profiles of its configuration.
ProfileOrders == Orders(Profiles)

\* A process starts: the configuration is read, main lists the installed and
\* then the available kernels, and the store is loaded from the ESP. When
\* list_installed fails main returns its error and nothing else happens.
Scan(world, inst, ks, store, profiles) ==
    [ok |-> inst.ok,
     kernels |-> IF inst.ok THEN ks ELSE <<>>,
     installed |-> inst.val,
     w |-> [world EXCEPT !.sbconf = [default |-> world.loaderDefault, entries |-> store],
                         !.bootargs = profiles]]

Scans(g, world) ==
    { Scan(world, inst, ks, store, profiles) :
        inst \in InstalledLists(g, world), ks \in Lists(g, world),
        store \in Stores(g, world), profiles \in ProfileOrders }

\* No name has been given to the parser.
PvIdle == [done |-> FALSE]

\* No target has been given.
SelIdle == [done |-> FALSE]

CpIdle == [src |-> None, dst |-> None, before |-> None, calls |-> 0, writes |-> 0,
           res |-> "none", wrote |-> FALSE, n |-> 0, failed |-> FALSE]

\* An operation on a kernel, named by its entry id, and its result.
Event(op, k, res) == [op |-> op, k |-> k.entry, res |-> res]
Returned(cmd, res) == [cmd |-> cmd, res |-> res]

BeginAt(g, s) ==
    /\ gen = g
    /\ w = s.w /\ w0 = s.w
    /\ kernels = s.kernels
    /\ installed_kernels = s.installed
    /\ driver = "none"
    /\ pc = (IF s.ok THEN "idle" ELSE "exit") /\ phase = 0 /\ idx = 0
    /\ ops = 0 /\ faults = 0
    /\ events = <<>> /\ setBy = None
    /\ ret = (IF s.ok THEN Returned("none", "none") ELSE Returned("main", "err_parse"))
    /\ cp = CpIdle
    /\ pv = PvIdle /\ sel = SelIdle

Begin(g, world) == \E s \in Scans(g, world) : BeginAt(g, s)

\* The pointer values of the start states: none, or the entry of a kernel.
Pointers(g, names) == {None} \cup { Some(DefaultId(g, K(g, n))) : n \in names }

\* Spec: K1 and K2 are available; K1 is not installed, K2 is, K3 was left
\* installed by an earlier run.
Used ==
    \E g \in Gens, st \in [Pool -> EspKinds] : \E dflt \in Pointers(g, {K2, K3}) :
        /\ st[K1] = "absent" /\ st[K2] # "absent" /\ st[K3] = "installed"
        /\ Begin(g, World(g, {K1, K2}, st, TRUE, dflt))

\* An ESP the program has not been set up on: no install directory, and an
\* entries directory when a boot loader was installed before.
Fresh ==
    \E g \in Gens, loader \in BOOLEAN :
        Begin(g, [World(g, {K1, K2}, [n \in Pool |-> "absent"], TRUE, None)
                     EXCEPT !.destDir = FALSE, !.entriesDir = loader])

Init == Used \/ Fresh

\* UpdateSpec: any available set, any installed set with at most one kernel
\* damaged; GenericKernel is what the update procedures run on.
UpdateInit ==
    \E avail \in SUBSET Pool, st \in [Pool -> EspKinds], dflt \in Pointers("generic", {K3}) :
        /\ OneDamaged(st)
        /\ Begin("generic", World("generic", avail, st, TRUE, dflt))

\* ------------------------------------------------------------------ inputs

Faulty == { [kind |-> "short", n |-> PartialLen], [kind |-> "err", n |-> PartialLen] }

\* The outcomes of the transfers of one install_and_make_config: the image,
\* the initrd, the microcode and the entry; at most one of them faulty, and
\* none when no fault is left (room = 0).
Slots == {"vmlinux", "initrd", "ucode", "entry"}
NFaults(ios) == Cardinality({ s \in Slots : ios[s].kind # "full" })
IosNone == { [s \in Slots |-> IoFull] }
IosOne == IosNone \cup { [s \in Slots |-> IF s = t THEN f ELSE IoFull] : t \in Slots, f \in Faulty }
Ios(room) == IF room > 0 THEN IosOne ELSE IosNone

\* The outcomes of reading and writing the loader configuration.
Cfgs(room) == IF room > 0 THEN {"ok", "err"} ELSE {"ok"}
CfgFaults(cfg) == IF cfg = "err" THEN 1 ELSE 0

\* ------------------------------------------------------------------ update

\* update of main.rs installs, removes, sets the default;
\* KernelManager::update removes, installs, sets the default.
Phases(d) ==
    IF d = "main" THEN <<"install", "remove", "default">>
    ELSE <<"remove", "install", "default">>

\* An update that takes every installed kernel for obsoleted.
ObsoleteAll(avail, installed) == installed

\* The installed kernels that no available kernel equals.
Obsolete(avail, installed) ==
    LET gone(k) == ~Contains(avail, k) IN SelectSeq(installed, gone)

\* The kernels a phase of update works through, in order.
Work(d, p, avail, installed) ==
    CASE Phases(d)[p] = "install" -> avail
      [] Phases(d)[p] = "remove"  -> Obsolete(avail, installed)
      [] OTHER -> IF avail = <<>> THEN <<>> ELSE <<avail[1]>>

\* The next position of update with something to do; phase 4 when it is through.
RECURSIVE Seek(_, _, _, _, _)
Seek(d, p, i, avail, installed) ==
    IF p > 3 THEN [phase |-> 4, idx |-> 0]
    ELSE IF i <= Len(Work(d, p, avail, installed)) THEN [phase |-> p, idx |-> i]
    ELSE Seek(d, p + 1, 1, avail, installed)

\* One operation of update on kernel k.
UpdateOp(g, world, op, k, ios, cfg) ==
    CASE op = "install" -> install_and_make_config(g, world, k, TRUE, FALSE, ios)
      [] op = "remove"  -> remove(g, world, k, cfg)
      [] OTHER          -> set_default(g, world, k, cfg)

\* The kernel whose set_default wrote the pointer, after event e.
SetByAfter(e, old) ==
    IF e.op = "set_default" /\ e.res = "ok" THEN Some(e.k) ELSE old

UpdateAt(d, pos) ==
    /\ driver' = d
    /\ pc' = IF pos.phase = 4 THEN "idle" ELSE "update"
    /\ phase' = pos.phase /\ idx' = pos.idx
    /\ ret' = IF pos.phase = 4 THEN Returned("update", "ok") ELSE Returned("none", "none")

\* update starts on the lists of the process.
UpdateBegin ==
    /\ pc = "idle" /\ ops < MaxOps
    /\ gen = "generic"
    /\ \E d \in Drivers : UpdateAt(d, Seek(d, 1, 1, kernels, installed_kernels))
    /\ w0' = w
    /\ ops' = ops + 1
    /\ events' = <<>>
    /\ UNCHANGED <<gen, w, kernels, installed_kernels, faults, setBy, cp, pv, sel>>

\* An update that logs the error of an operation and goes on with the next.
StepOver(e, r, pos, used) ==
    /\ w' = r.w
    /\ events' = Append(events, e)
    /\ setBy' = SetByAfter(e, setBy)
    /\ faults' = faults + used
    /\ pc' = IF pos.phase = 4 THEN "idle" ELSE "update"
    /\ phase' = pos.phase
    /\ idx' = pos.idx
    /\ ret' = IF pos.phase = 4 THEN Returned("update", r.res) ELSE ret

StepEnd(e, r, pos, used) ==
    /\ w' = r.w
    /\ events' = Append(events, e)
    /\ setBy' = SetByAfter(e, setBy)
    /\ faults' = faults + used
    /\ pc' = IF r.res # "ok" \/ pos.phase = 4 THEN "idle" ELSE "update"
    /\ phase' = IF r.res # "ok" THEN phase ELSE pos.phase
    /\ idx' = IF r.res # "ok" THEN idx ELSE pos.idx
    /\ ret' = IF r.res # "ok" \/ pos.phase = 4 THEN Returned("update", r.res) ELSE ret

StepDone(op, k, r, used) ==
    StepEnd(Event(IF op = "default" THEN "set_default" ELSE op, k, r.res), r,
            Seek(driver, phase, idx + 1, kernels, installed_kernels), used)

StepOn(op, k, ios, cfg) ==
    /\ op = "install" => cfg = "ok"
    /\ op # "install" => NFaults(ios) = 0
    /\ StepDone(op, k, UpdateOp(gen, w, op, k, ios, cfg), NFaults(ios) + CfgFaults(cfg))

\* update goes on by one operation on one kernel; an error ends it.
UpdateStep ==
    /\ pc = "update"
    /\ \E ios \in Ios(MaxFaults - faults), cfg \in Cfgs(MaxFaults - faults) :
          StepOn(Phases(driver)[phase],
                 Work(driver, phase, kernels, installed_kernels)[idx], ios, cfg)
    /\ UNCHANGED <<gen, w0, kernels, installed_kernels, driver, ops, cp, pv, sel>>

\* ------------------------------------------------------------------ single commands

\* A command other than update: r is how it ended, evs what it did.
Command(cmd, r, evs, used) ==
    /\ w0' = w
    /\ w' = r.w
    /\ events' = evs
    /\ ret' = Returned(cmd, r.res)
    /\ setBy' = SetByAfter(evs[Len(evs)], setBy)
    /\ ops' = ops + 1
    /\ faults' = faults + used
    /\ UNCHANGED <<gen, kernels, installed_kernels, driver, pc, phase, idx, cp, pv, sel>>

\* A command of one operation on one kernel.
One(cmd, k, r, used) == Command(cmd, r, <<Event(cmd, k, r.res)>>, used)

\* ask_set_default after install_and_make_config ended as r1.
InstallAsk(k, r1, r2, answer, ios, cfg) ==
    IF r1.res = "ok" /\ answer
    THEN Command("install", r2,
                 <<Event("install", k, r1.res), Event("set_default", k, r2.res)>>,
                 NFaults(ios) + CfgFaults(cfg))
    ELSE /\ cfg = "ok"
         /\ One("install", k, r1, NFaults(ios))

InstallThen(k, r1, answer, ios, cfg) ==
    InstallAsk(k, r1, set_default(gen, r1.w, k, cfg), answer, ios, cfg)

\* install: install_and_make_config(force), then ask_set_default; overwrite
\* and answer are the replies to the two prompts.
Install ==
    /\ pc = "idle" /\ ops < MaxOps
    /\ \E n \in Pool, force \in BOOLEAN, overwrite \in BOOLEAN, answer \in BOOLEAN,
          ios \in Ios(MaxFaults - faults), cfg \in Cfgs(MaxFaults - faults) :
          /\ NFaults(ios) + CfgFaults(cfg) <= MaxFaults - faults
          /\ force => ~overwrite
          /\ ~answer => cfg = "ok"
          /\ InstallThen(K(gen, n),
                         install_and_make_config(gen, w, K(gen, n), force, overwrite, ios),
                         answer, ios, cfg)

\* remove-kernel: remove on a kernel parsed from the target.
Remove ==
    /\ pc = "idle" /\ ops < MaxOps
    /\ \E n \in Pool, cfg \in Cfgs(MaxFaults - faults) :
          One("remove", K(gen, n), remove(gen, w, K(gen, n), cfg), CfgFaults(cfg))

\* set_default on a kernel parsed from the target.
SetDefault ==
    /\ pc = "idle" /\ ops < MaxOps
    /\ \E n \in Pool, cfg \in Cfgs(MaxFaults - faults) :
          One("set_default", K(gen, n), set_default(gen, w, K(gen, n), cfg), CfgFaults(cfg))

\* remove_default on a kernel parsed from the target.
RemoveDefault ==
    /\ pc = "idle" /\ ops < MaxOps
    /\ \E n \in Pool, cfg \in Cfgs(MaxFaults - faults) :
          One("remove_default", K(gen, n), remove_default(gen, w, K(gen, n), cfg),
              CfgFaults(cfg))

\* bootctl install --esp=...: made tells whether it left loader/entries/.
bootctl_install(world, made) == [world EXCEPT !.entriesDir = @ \/ made]

\* fs::create_dir_all(esp/EFI/systemd-boot-friend/)
create_dir_all(world) == [world EXCEPT !.destDir = TRUE]

InitEnds(res, used) ==
    /\ w0' = w
    /\ ret' = Returned("init", res)
    /\ faults' = faults + used
    /\ UNCHANGED <<driver, pc, phase, idx>>

\* init: ask_init, bootctl install, the install directory, ask_update and
\* update on the lists main made before.
init ==
    /\ pc = "idle" /\ ops < MaxOps
    /\ gen = "generic"
    /\ \E ask_init \in BOOLEAN, status \in {"ok", "err"}, made \in BOOLEAN,
          mkdir \in Cfgs(MaxFaults - faults), ask_update \in BOOLEAN :
          IF ~ask_init
          THEN /\ status = "ok" /\ ~made /\ mkdir = "ok" /\ ~ask_update
               /\ w' = w
               /\ InitEnds("ok", 0)
          ELSE IF status = "err"
          THEN /\ mkdir = "ok" /\ ~ask_update
               /\ w' = bootctl_install(w, made)
               /\ InitEnds("err_bootctl", 0)
          ELSE IF mkdir = "err"
          THEN /\ ~ask_update
               /\ w' = bootctl_install(w, made)
               /\ InitEnds("err_io", 1)
          ELSE /\ w' = create_dir_all(bootctl_install(w, made))
               /\ IF ask_update
                  THEN /\ UpdateAt("main", Seek("main", 1, 1, kernels, installed_kernels))
                       /\ w0' = w'
                       /\ faults' = faults
                  ELSE InitEnds("ok", 0)
    /\ ops' = ops + 1
    /\ events' = <<>>
    /\ UNCHANGED <<gen, kernels, installed_kernels, setBy, cp, pv, sel>>

Rescanned(s) ==
    /\ w' = s.w /\ w0' = s.w
    /\ kernels' = s.kernels
    /\ installed_kernels' = s.installed

\* The process ends and the next one starts: main lists the kernels and the
\* store is loaded again.
Reload ==
    /\ pc = "idle" /\ 0 < ops /\ ops < MaxOps
    /\ ret.cmd # "reload"
    /\ \E s \in Scans(gen, w) :
          /\ Rescanned(s)
          /\ pc' = IF s.ok THEN "idle" ELSE "exit"
          /\ ret' = Returned("reload", IF s.ok THEN "ok" ELSE "err_parse")
    /\ events' = <<>>
    /\ setBy' = None
    /\ UNCHANGED <<gen, driver, phase, idx, ops, faults, cp, pv, sel>>

Next ==
    \/ init
    \/ UpdateBegin
    \/ UpdateStep
    \/ Install
    \/ Remove
    \/ SetDefault
    \/ RemoveDefault
    \/ Reload

Spec == Init /\ [][Next]_vars

UpdateNext ==
    \/ UpdateBegin
    \/ UpdateStep

UpdateSpec == UpdateInit /\ [][UpdateNext]_vars

\* update, and after a successful update the same update run again by a new
\* process: main lists the kernels again and the store is loaded again.
First == ops = 0 /\ UpdateBegin

Rerun == ret = Returned("update", "ok") /\ Reload

Second == ret = Returned("reload", "ok") /\ UpdateBegin /\ driver' = driver

AgainNext ==
    \/ First
    \/ UpdateStep
    \/ Rerun
    \/ Second

AgainSpec == UpdateInit /\ [][AgainNext]_vars

\* ------------------------------------------------------------------ one operation alone

\* Files an earlier install left in the install directory: the microcode
\* image, and an initrd of K3's name (K3 ships no initrd).
Leftovers(g) == {UCODE, K(g, K3).initrd}

WithLeft(dest, left) ==
    [f \in DOMAIN dest \cup left |-> IF f \in left THEN StaleData ELSE dest[f]]

\* The ESP with its two directories as dirs says; a missing directory holds nothing.
OnEsp(world, dirs) ==
    [world EXCEPT !.destDir = dirs.dest,
                  !.dest = IF dirs.dest THEN @ ELSE NoFiles,
                  !.entriesDir = dirs.entries,
                  !.entries = IF dirs.entries THEN @ ELSE NoFiles]

Dirs == [dest : BOOLEAN, entries : BOOLEAN]

\* OpsSpec: every kernel of the pool is available; K1 is not installed; the
\* ESP has both directories, or lacks some and is otherwise empty.
OpsWorld(g, st, ucode, left, dirs) ==
    OnEsp(WorldWith(g, Pool, st, ucode, Some(DefaultId(g, K(g, K2))),
                    WithLeft(DestFiles(g, st), left)),
          dirs)

OpsInit ==
    \E g \in Gens, st \in [Pool -> {"absent", "installed", "stale"}], ucode \in BOOLEAN,
       dirs \in Dirs :
        \E left \in SUBSET Leftovers(g) :
            /\ st[K1] = "absent" /\ st[K3] # "stale"
            /\ (~dirs.dest \/ ~dirs.entries) =>
                  (left = {} /\ \A n \in Pool : st[n] = "absent")
            /\ Begin(g, OpsWorld(g, st, ucode, left, dirs))

\* install, make_config and install_and_make_config are methods of a kernel;
\* a process runs them one after another, on K2 or K3 as it parsed them.
OpInstall ==
    /\ pc = "idle" /\ ops < MaxOps
    /\ \E n \in Pool \ {K1}, ios \in Ios(MaxFaults - faults) :
          /\ ios.entry = IoFull
          /\ One("install", K(gen, n), install(gen, w, K(gen, n), ios), NFaults(ios))

OpMakeConfig ==
    /\ pc = "idle" /\ ops < MaxOps
    /\ \E n \in Pool \ {K1}, force \in BOOLEAN, overwrite \in BOOLEAN,
          ios \in Ios(MaxFaults - faults) :
          /\ force => ~overwrite
          /\ \A t \in Slots \ {"entry"} : ios[t] = IoFull
          /\ One("make_config", K(gen, n),
                 make_config(gen, w, K(gen, n), force, overwrite, ios.entry), NFaults(ios))

OpInstallAndMakeConfig ==
    /\ pc = "idle" /\ ops < MaxOps
    /\ \E n \in Pool \ {K1}, force \in BOOLEAN, overwrite \in BOOLEAN,
          ios \in Ios(MaxFaults - faults) :
          /\ force => ~overwrite
          /\ One("install_and_make_config", K(gen, n),
                 install_and_make_config(gen, w, K(gen, n), force, overwrite, ios),
                 NFaults(ios))

OpsNext ==
    \/ OpInstall
    \/ OpMakeConfig
    \/ OpInstallAndMakeConfig

OpsSpec == OpsInit /\ [][OpsNext]_vars

\* ------------------------------------------------------------------ list alone

\* A directory of the module tree whose name is no version.
Foreign == <<"e", "x", "t", "r", "a", "m", "o", "d", "u", "l", "e", "s">>

\* The module tree: some of the pool's names and the foreign one, each with
\* some of the marker files.
ModuleTrees ==
    UNION { [dirs -> SUBSET Markers] : dirs \in SUBSET (Pool \cup {Foreign}) }

ListInit ==
    /\ \E g \in Gens, m \in ModuleTrees :
          /\ gen = g
          /\ w = [World(g, {}, [n \in Pool |-> "absent"], FALSE, None) EXCEPT !.modules = m]
    /\ w0 = w
    /\ kernels = <<>> /\ installed_kernels = <<>>
    /\ driver = "none"
    /\ pc = "list" /\ phase = 0 /\ idx = 0
    /\ ops = 0 /\ faults = 0
    /\ events = <<>> /\ ret = Returned("none", "none") /\ setBy = None
    /\ cp = CpIdle /\ pv = PvIdle /\ sel = SelIdle

\* Kernel::list(config) returns Ok(kernels).
ListCall ==
    /\ pc = "list"
    /\ \E dir \in ReadDir(DOMAIN w.modules) : kernels' = list(gen, w, dir)
    /\ pc' = "listed"
    /\ ret' = Returned("list", "ok")
    /\ UNCHANGED <<gen, w, w0, installed_kernels, driver, phase, idx, ops, faults, events,
                   setBy, cp, pv, sel>>

ListNext == ListCall

ListSpec == ListInit /\ [][ListNext]_vars

\* ------------------------------------------------------------------ discovery at start-up

\* Files of the install directory that no install of the pool wrote: a copy of
\* an image kept under another name, and an image named after no version.
Stray == <<"o", "l", "d", "-">> \o Replace(ConfigVmlinux, VERSION, K2)
Unversioned == Replace(ConfigVmlinux, VERSION, <<"f", "o", "o">>)

\* K1 with the patch number left out: another name of the same version.
Twin == <<"5", ".", "1", "5", "-", "r", "c", "1", "-", "x">>

DestNames ==
    { Replace(ConfigVmlinux, VERSION, n) : n \in Pool \cup {Twin} }
        \cup { Replace(ConfigInitrd, VERSION, K2), UCODE, Stray, Unversioned }

\* main before any command ran: an install directory and a module tree.
DiscoverInit ==
    /\ \E g \in Gens, files \in SUBSET DestNames, avail \in SUBSET (Pool \cup {Twin}) :
          /\ gen = g
          /\ w = WorldOf(g, avail, FALSE, None, [f \in files |-> FreshData], NoFiles)
    /\ w0 = w
    /\ kernels = <<>> /\ installed_kernels = <<>>
    /\ driver = "none"
    /\ pc = "main" /\ phase = 0 /\ idx = 0
    /\ ops = 0 /\ faults = 0
    /\ events = <<>> /\ ret = Returned("none", "none") /\ setBy = None
    /\ cp = CpIdle /\ pv = PvIdle /\ sel = SelIdle

\* main: let installed_kernels = list_installed(&config)?;
MainListInstalled ==
    /\ pc = "main"
    /\ \E r \in InstalledLists(gen, w) :
           /\ installed_kernels' = r.val
           /\ ret' = Returned("list_installed", IF r.ok THEN "ok" ELSE "err_parse")
           /\ pc' = IF r.ok THEN "installed" ELSE "exit"
    /\ UNCHANGED <<gen, w, w0, kernels, driver, phase, idx, ops, faults, events, setBy, cp, pv, sel>>

\* main: let kernels = list(&config)?;
MainList ==
    /\ pc = "installed"
    /\ \E dir \in ReadDir(DOMAIN w.modules) : kernels' = list(gen, w, dir)
    /\ ret' = Returned("list", "ok")
    /\ pc' = "available"
    /\ UNCHANGED <<gen, w, w0, installed_kernels, driver, phase, idx, ops, faults, events,
                   setBy, cp, pv, sel>>

DiscoverNext ==
    \/ MainListInstalled
    \/ MainList

DiscoverSpec == DiscoverInit /\ [][DiscoverNext]_vars

\* ------------------------------------------------------------------ choosing the target

\* The builds of the program: with the overflow checks of a debug build, or
\* without them.
Builds == {"debug", "release"}

DigitText == <<"0", "1", "2", "3", "4", "5", "6", "7", "8", "9">>

\* The decimal digits of a position of a list.
RECURSIVE Decimal(_)
Decimal(i) ==
    IF i < 10 THEN <<DigitText[i + 1]>>
    ELSE Decimal(i \div 10) \o <<DigitText[(i % 10) + 1]>>

\* d - 1 for a canonical d above zero, before leading zeros are dropped.
RECURSIVE Borrow(_)
Borrow(d) ==
    LET last  == d[Len(d)]
        front == Take(d, Len(d) - 1)
    IN  IF last = "0" THEN Borrow(front) \o <<"9">>
        ELSE front \o <<DigitText[Code(last) - Code("0")]>>

\* num - 1 on usize: from zero the subtraction panics where overflow is
\* checked and wraps to usize::MAX where it is not.
usize_sub_one(num, build) ==
    IF num = <<"0">>
    THEN IF build = "debug" THEN [panic |-> TRUE, wrapped |-> FALSE, val |-> <<>>]
         ELSE [panic |-> FALSE, wrapped |-> TRUE, val |-> U64Max]
    ELSE [panic |-> FALSE, wrapped |-> FALSE, val |-> StripZeros(Borrow(num))]

\* slice::get(i): the element at the 0-based position i, if there is one.
Get(ks, i) ==
    LET at == { j \in 1..Len(ks) : Decimal(j - 1) = i }
    IN  IF at = {} THEN None ELSE Some(ks[CHOOSE j \in at : TRUE])

Chosen(res, k, wrapped) == [res |-> res, kernel |-> k, wrapped |-> wrapped]

\* parse_num_or_filename
parse_num_or_filename(g, n, ks, build) ==
    LET num == ParseU64(n)
        i   == usize_sub_one(num.val, build)
    IN  IF num.ok
        THEN IF i.panic THEN Chosen("panic", None, FALSE)
             ELSE IF IsSome(Get(ks, i.val)) THEN Chosen("ok", Get(ks, i.val), i.wrapped)
             ELSE Chosen("invalid_index", None, i.wrapped)
        ELSE IF KernelParse(g, n).ok THEN Chosen("ok", Some(KernelParse(g, n).val), FALSE)
             ELSE Chosen("err_parse", None, FALSE)

\* select_kernel of util.rs: the element of the displayed list at the index
\* the user chose.
util_select_kernel(own, shown, pick) ==
    IF shown = <<>> THEN Chosen("empty_list", None, FALSE)
    ELSE Chosen("ok", Some(shown[pick + 1]), FALSE)

\* KernelManager::select_kernel: self.kernels at the index the user chose in
\* the displayed list; an index past the end of self.kernels panics.
select_kernel(own, shown, pick) ==
    IF shown = <<>> THEN Chosen("empty_list", None, FALSE)
    ELSE IF pick + 1 > Len(own) THEN Chosen("panic", None, FALSE)
    ELSE Chosen("ok", Some(own[pick + 1]), FALSE)

\* KernelManager::select_available_kernel, KernelManager::select_installed_kernel
select_available_kernel(ks, inst, pick) == select_kernel(ks, ks, pick)
select_installed_kernel(ks, inst, pick) == select_kernel(ks, inst, pick)

\* The targets given on the command line: positions, in the spellings
\* str::parse accepts, the ends of usize, and names.
Targets ==
    { <<"0">>, <<"1">>, <<"2">>, <<"3">>, <<"4">>, <<"0", "0">>, <<"0", "3">>, <<"+", "2">>,
      U64Max, StripZeros(Borrow(U64Max)) \o <<"6">>, K2, <<"f", "o", "o">> }

\* The indices the selection dialogue can return for a displayed list.
Picks(shown) == IF shown = <<>> THEN {0} ELSE 0..(Len(shown) - 1)

SelectInit ==
    \E avail \in SUBSET Pool, inst \in SUBSET Pool, foreign \in BOOLEAN :
        Begin("generic",
              [World("generic", avail,
                     [n \in Pool |-> IF n \in inst THEN "installed" ELSE "absent"], FALSE, None)
                  EXCEPT !.dest = IF foreign THEN Put(@, Unversioned, FreshData) ELSE @])

Select(op, input, shown, r) ==
    /\ sel' = [done |-> TRUE, op |-> op, input |-> input, shown |-> shown, res |-> r.res,
               kernel |-> r.kernel, wrapped |-> r.wrapped]
    /\ ret' = Returned(op, r.res)
    /\ pc' = "selected"
    /\ UNCHANGED <<gen, w, w0, kernels, installed_kernels, driver, phase, idx, ops, faults,
                   events, setBy, cp, pv>>

\* specify_or_choose with a target: install-kernel shows the available list,
\* remove-kernel the installed one.
SelectTarget ==
    /\ pc = "idle"
    /\ \E n \in Targets, shown \in {kernels, installed_kernels}, build \in Builds :
          Select("parse_num_or_filename", n, shown,
                 parse_num_or_filename(gen, n, shown, build))

SelectAvailable ==
    /\ pc = "idle"
    /\ \E pick \in Picks(kernels) :
          Select("select_available_kernel", pick, kernels,
                 select_available_kernel(kernels, installed_kernels, pick))

SelectInstalled ==
    /\ pc = "idle"
    /\ \E pick \in Picks(installed_kernels) :
          Select("select_installed_kernel", pick, installed_kernels,
                 select_installed_kernel(kernels, installed_kernels, pick))

\* specify_or_select of util.rs without a target, on either list.
UtilSelect ==
    /\ pc = "idle"
    /\ \E shown \in {kernels, installed_kernels} : \E pick \in Picks(shown) :
          Select("util_select_kernel", pick, shown, util_select_kernel(kernels, shown, pick))

SelectNext ==
    \/ SelectTarget
    \/ UtilSelect
    \/ SelectAvailable
    \/ SelectInstalled

SelectSpec == SelectInit /\ [][SelectNext]_vars

\* ------------------------------------------------------------------ the parser alone

\* Longest name among the names made of every text over NameChars.
MaxName == 4

NameChars == {"0", "5", ".", "-", "r", "c", "x", "+"}

\* Every text of at most n characters of NameChars.
Texts(n) == UNION { [1..m -> NameChars] : m \in 0..n }

\* Names built the way kernel packages are named: major.minor, then the
\* optional patch, release-candidate tag, release counter and local suffix.
Majors == {<<"5">>, <<"1", "0">>}
Minors == {<<"9">>, <<"1", "2">>}
Patches == {<<>>, <<".", "0">>, <<".", "1", "2">>}
Rcs == {<<>>, <<"-", "r", "c", "3">>}
Rels == {<<>>, <<"-", "1", "1">>}
Suffixes == {<<>>, <<"-", "a", "m", "d", "6", "4">>, <<"-", "a", "o", "s", "c", "-", "m", "a", "i", "n">>}

Built ==
    { ma \o <<".">> \o mi \o pa \o r \o re \o su :
        ma \in Majors, mi \in Minors, pa \in Patches, r \in Rcs, re \in Rels, su \in Suffixes }

\* The names of the tests of parser.rs, and names at the edges of u64 and of
\* str::parse.
Tested ==
    { <<"5", ".", "1", "2", ".", "0", "-", "r", "c", "3", "-", "a", "o", "s", "c", "-", "m", "a", "i", "n">>,
      <<"5", ".", "1", "2", "-", "a", "o", "s", "c", "-", "m", "a", "i", "n">>,
      <<"5", ".", "1", "5", ".", "1", "2", "-", "1", "0", "0", ".", "f", "c", "3", "4", ".", "x", "8", "6", "_", "6", "4">>,
      <<"5", ".", "1", "0", ".", "0", "-", "1", "1", "-", "a", "m", "d", "6", "4">> }

Edges ==
    { U64Max \o <<".", "1">>,
      <<"1", "8", "4", "4", "6", "7", "4", "4", "0", "7", "3", "7", "0", "9", "5", "5", "1", "6", "1", "6", ".", "1">>,
      <<"5", ".", "1", "8", "4", "4", "6", "7", "4", "4", "0", "7", "3", "7", "0", "9", "5", "5", "1", "6", "1", "6">>,
      <<"5", ".", "1", ".", "1", "8", "4", "4", "6", "7", "4", "4", "0", "7", "3", "7", "0", "9", "5", "5", "1", "6", "1", "6">>,
      <<"5", ".", "1", "0", ".", "0", "-", "+", "5", "-", "a", "m", "d", "6", "4">>,
      <<"5", ".", "1", "0", ".", "0", "-", "1", "8", "4", "4", "6", "7", "4", "4", "0", "7", "3", "7", "0", "9", "5", "5", "1", "6", "1", "6", "-", "x">>,
      <<"5", ".", "1", "0", ".", "0", "-", "r", "c", "1", "0", "-", "1", "1", "-", "x">>,
      <<"0", "5", ".", "0", "1", "0", ".", "0", "0", "-", "r", "c", "0", "2", "-", "0", "1", "1", "-", "x">> }

\* Release candidates of one version, with one and with two digits.
CandidateTags == { <<"r", "c", "2">>, <<"r", "c", "9">>, <<"r", "c", "1", "0">>,
                   <<"r", "c", "1", "1">> }
Candidates == { <<"5", ".", "1", "0", ".", "0", "-">> \o t \o <<"-", "x">> : t \in CandidateTags }

Names == Texts(MaxName) \cup Built \cup Tested \cup Edges \cup Candidates

\* Version::parse of a, and of b; the order of the two; the text parse(a)
\* displays as, and Version::parse of that text; Kernel::parse of a.
ParseOf(a, b, pa, pb) ==
    [done |-> TRUE, a |-> a, b |-> b, pa |-> pa, pb |-> pb,
     cmp |-> IF pa.ok /\ pb.ok THEN VersionCmp(pa.val, pb.val) ELSE 0,
     shown |-> IF pa.ok THEN VersionDisplay(pa.val) ELSE <<>>,
     again |-> IF pa.ok THEN VersionParse(VersionDisplay(pa.val)) ELSE pa,
     kernel |-> [g \in Gens |-> KernelOf(g, a, pa)],
     other |-> [g \in Gens |-> KernelOf(g, b, pb)]]

\* ParseSpec: a name, and a second name to compare it with when both are built names.
ParseInit ==
    /\ gen = "generic"
    /\ w = World("generic", {}, [n \in Pool |-> "absent"], FALSE, None)
    /\ w0 = w
    /\ kernels = <<>> /\ installed_kernels = <<>>
    /\ driver = "none"
    /\ pc = "parse" /\ phase = 0 /\ idx = 0
    /\ ops = 0 /\ faults = 0
    /\ events = <<>> /\ ret = Returned("none", "none") /\ setBy = None
    /\ cp = CpIdle /\ sel = SelIdle
    /\ \E a \in Names :
       \E b \in (IF a \in Built THEN Built ELSE IF a \in Candidates THEN Candidates ELSE {a}) :
          pv = [done |-> FALSE, a |-> a, b |-> b]

ParseCall ==
    /\ pc = "parse" /\ ~pv.done
    /\ pv' = ParseOf(pv.a, pv.b, VersionParse(pv.a), VersionParse(pv.b))
    /\ UNCHANGED <<gen, w, w0, kernels, installed_kernels, driver, pc, phase, idx, ops,
                   faults, events, ret, setBy, cp, sel>>

ParseNext == ParseCall

ParseSpec == ParseInit /\ [][ParseNext]_vars

\* ------------------------------------------------------------------ the verified copy alone

Bytes == {1, 2}

\* Every content of at most n bytes.
Contents(n) == UNION { [1..m -> Bytes] : m \in 0..n }

\* A file that may not exist.
Files == {None} \cup { Some(c) : c \in Contents(MaxLen) }

\* What the transfer may do: complete, report n bytes, fail after n bytes.
CopyIos == {IoFull} \cup { [kind |-> kd, n |-> n] : kd \in {"short", "err"}, n \in 0..MaxLen }

CopyInit ==
    /\ gen = "generic"
    /\ w = World("generic", {}, [n \in Pool |-> "absent"], FALSE, None)
    /\ w0 = w
    /\ kernels = <<>> /\ installed_kernels = <<>>
    /\ driver = "none"
    /\ pc = "copy" /\ phase = 0 /\ idx = 0
    /\ ops = 0 /\ faults = 0
    /\ events = <<>> /\ ret = Returned("none", "none") /\ setBy = None
    /\ pv = PvIdle /\ sel = SelIdle
    /\ \E src \in Files, dst \in Files :
          cp = [CpIdle EXCEPT !.src = src, !.dst = dst, !.before = dst]

\* safe_copy(src, dst) is called; src is not touched.
CopyCall ==
    /\ pc = "copy" /\ cp.calls < MaxCalls
    /\ \E io \in CopyIos :
          LET r == safe_copy(cp.src, cp.dst, io)
          IN  cp' = [src |-> cp.src, dst |-> r.dst, before |-> cp.dst,
                     calls |-> cp.calls + 1,
                     writes |-> cp.writes + (IF r.wrote THEN 1 ELSE 0),
                     res |-> r.res, wrote |-> r.wrote, n |-> r.n,
                     failed |-> cp.failed \/ r.res # "ok"]
    /\ UNCHANGED <<gen, w, w0, kernels, installed_kernels, driver, pc, phase, idx, ops,
                   faults, events, ret, setBy, pv, sel>>

CopyNext == CopyCall

CopySpec == CopyInit /\ [][CopyNext]_vars

\* ------------------------------------------------------------------ properties

\* The state update or a command left: which files of a kernel are on the ESP.
HasImage(world, k) == Exists(world.dest, k.vmlinux)
HasInitrd(world, k) == Exists(world.dest, k.initrd)
HasEntry(world, k) == Exists(world.entries, EntryFile(gen, k, DefaultProfile))
Bootable(world, k) == HasImage(world, k) /\ HasEntry(world, k)
SomeBootable(world) == \E n \in Pool : Bootable(world, K(gen, n))

\* The kernel of an event, and whether the list names a kernel of that name.
Named(list_, e) == \E i \in 1..Len(list_) : list_[i].entry = e
Did(op, k) == \E i \in 1..Len(events) : events[i].op = op /\ events[i].k = k.entry

UpdateReturned(res) == pc = "idle" /\ ret = Returned("update", res)
InUpdate == pc = "update" \/ ret.cmd = "update"

\* The one operation of the latest command, when it was op on kernel n.
Ran(op, n) ==
    /\ pc = "idle" /\ ret.cmd = op
    /\ events = <<Event(op, K(gen, n), ret.res)>>

\* C1: whenever update returns success with a non-empty available list, every
\* available kernel has its image and its entry file on the ESP, and the
\* default pointer is the entry id of the first kernel of the list.
C1_UpdateInstallsEveryAvailable ==
    (UpdateReturned("ok") /\ kernels # <<>>) =>
        /\ \A i \in 1..Len(kernels) : Bootable(w, kernels[i])
        /\ w.loaderDefault = Some(DefaultId(gen, kernels[1]))

\* C2: during update every install event precedes every remove event, and a
\* kernel is removed only after install_and_make_config succeeded for every
\* kernel of the available list.
C2_InstallBeforeRemove ==
    InUpdate =>
        \A i \in 1..Len(events) :
            events[i].op = "remove" =>
                /\ \A j \in 1..Len(events) : events[j].op = "install" => j < i
                /\ \A a \in 1..Len(kernels) :
                      \E j \in 1..(i - 1) :
                          events[j] = Event("install", kernels[a], "ok")

\* C3: if some kernel has its image and its entry file on the ESP when update
\* starts and the available list is not empty, then in every state of update,
\* the one it stops in on an error included, some kernel has both.
C3_AlwaysOneBootable ==
    (InUpdate /\ SomeBootable(w0) /\ kernels # <<>>) => SomeBootable(w)

\* C4: whenever the verified copy of an existing source returns success, the
\* destination exists and holds the content of the source, whether or not the
\* destination existed before the call.
C4_SuccessfulCopyIsIdentical ==
    (cp.calls > 0 /\ IsSome(cp.src) /\ cp.res = "ok") => cp.dst = cp.src

\* The last call transferred bytes, and fewer or more than the source holds.
WroteShort == cp.calls > 0 /\ cp.wrote /\ cp.n # Len(Unwrap(cp.src))

\* A destination that holds neither what it held before the call nor the
\* content of the source.
PartialFile == IsSome(cp.dst) /\ cp.dst # cp.before /\ cp.dst # cp.src

\* C5: when the bytes the verified copy wrote differ in number from the size
\* of the source, the destination file is deleted and the no-space error is
\* returned; after a failed copy no partial destination file remains.
C5_ShortCopyIsDeleted ==
    /\ WroteShort => (cp.dst = None /\ cp.res = "no_space")
    /\ (cp.calls > 0 /\ cp.res # "ok") => ~PartialFile

\* The part of C5 the code keeps: a byte count that fs::copy returns and that
\* differs from the size of the source deletes the destination, and the
\* no-space error never leaves a file.
ReturnedCountIsChecked ==
    /\ (WroteShort /\ cp.res # "err_io") => (cp.dst = None /\ cp.res = "no_space")
    /\ cp.res = "no_space" => (WroteShort /\ cp.dst = None)

ReturnedCountIsChecked_Witness ==
    /\ WroteShort /\ cp.res = "no_space"
    /\ IsSome(cp.before) /\ cp.dst = None

\* C6: the verified copy writes nothing when the destination already holds
\* the content of the source; calls in succession that succeed transfer bytes
\* at most once and each leaves the destination identical to the source.
C6_CopyIsIdempotent ==
    (cp.calls > 0 /\ IsSome(cp.src)) =>
        /\ cp.before = cp.src => ~cp.wrote
        /\ ~cp.failed => (cp.writes <= 1 /\ cp.dst = cp.src)

\* C7: if the default pointer is k's entry id when remove(k) is called, the
\* pointer is empty after remove(k) returned, with success or with an error,
\* also when files of k were missing; stated for runs without an I/O fault.
C7_RemoveClearsOwnDefault ==
    \A n \in Pool :
        (Ran("remove", n) /\ faults = 0
           /\ w0.loaderDefault = Some(DefaultId(gen, K(gen, n))))
        => w.loaderDefault = None

\* C8: remove(k) and k.remove_default() leave the default pointer, in the
\* store and in the loader configuration, as it was whenever it is not k's
\* entry id; a pointer another kernel's set_default wrote earlier in the run
\* is still in place.
C8_OtherDefaultUntouched ==
    \A n \in Pool :
        ((Ran("remove", n) \/ Ran("remove_default", n))
           /\ w0.loaderDefault # Some(DefaultId(gen, K(gen, n)))
           /\ (gen = "generic" => w0.sbconf.default # Some(DefaultId(gen, K(gen, n)))))
        => /\ w.loaderDefault = w0.loaderDefault
           /\ w.sbconf.default = w0.sbconf.default

C8_Witness ==
    \E n \in Pool, m \in Pool :
        /\ Ran("remove", n) /\ ret.res = "ok"
        /\ m # n /\ setBy = Some(K(gen, m).entry)
        /\ w0.loaderDefault = Some(DefaultId(gen, K(gen, m)))
        /\ w.loaderDefault = Some(DefaultId(gen, K(gen, m)))
        /\ ~HasImage(w, K(gen, n))

\* C9: remove(k) attempts the three deletions independently: a file of k that
\* is already missing neither keeps the other two from being deleted nor makes
\* remove return an error; stated for runs without an I/O fault.
C9_RemoveToleratesMissingFiles ==
    \A n \in Pool :
        (Ran("remove", n) /\ faults = 0) =>
            /\ ret.res = "ok"
            /\ ~HasImage(w, K(gen, n))
            /\ ~HasInitrd(w, K(gen, n))
            /\ ~HasEntry(w, K(gen, n))

\* C10: a successful update has removed an installed kernel exactly when no
\* available kernel has its full name; an installed kernel that is available
\* keeps its image and its entry, and under update of main.rs a removed one
\* has neither; kernels that differ in the local suffix alone are told apart.
C10_RemovedIffNotAvailable ==
    UpdateReturned("ok") =>
        \A i \in 1..Len(installed_kernels) :
            /\ Did("remove", installed_kernels[i]) <=> ~Named(kernels, installed_kernels[i].entry)
            /\ Named(kernels, installed_kernels[i].entry) =>
                  /\ HasImage(w0, installed_kernels[i]) => HasImage(w, installed_kernels[i])
                  /\ HasEntry(w0, installed_kernels[i]) => HasEntry(w, installed_kernels[i])
            /\ (driver = "main" /\ ~Named(kernels, installed_kernels[i].entry))
                  => (~HasImage(w, installed_kernels[i]) /\ ~HasEntry(w, installed_kernels[i]))

C10_Witness ==
    /\ UpdateReturned("ok")
    /\ Named(installed_kernels, K(gen, K2).entry) /\ Named(installed_kernels, K(gen, K3).entry)
    /\ Named(kernels, K(gen, K2).entry) /\ ~Named(kernels, K(gen, K3).entry)
    /\ Did("remove", K(gen, K3)) /\ ~Did("remove", K(gen, K2))
    /\ Bootable(w0, K(gen, K2)) /\ Bootable(w, K(gen, K2))
    /\ HasImage(w0, K(gen, K3)) /\ ~HasImage(w, K(gen, K3))

\* The events of the latest command that are op and ended in an error.
FailedAt(op) == { i \in 1..Len(events) : events[i].op = op /\ events[i].res # "ok" }

\* C11: if install_and_make_config fails for an available kernel during
\* update, update returns that error and the failed install is the last thing
\* it did: no install, no removal and no set_default follows it; when the
\* install phase comes first (main.rs) the default pointer is as update found it.
C11_InstallFailureAborts ==
    InUpdate =>
        \A i \in FailedAt("install") :
            /\ i = Len(events)
            /\ UpdateReturned(events[i].res)
            /\ driver = "main" =>
                  /\ \A j \in 1..Len(events) : events[j].op = "install"
                  /\ w.loaderDefault = w0.loaderDefault
                  /\ w.sbconf.default = w0.sbconf.default

C11_Witness ==
    /\ InUpdate /\ FailedAt("install") = {1} /\ Len(events) = 1
    /\ Len(kernels) >= 2
    /\ Obsolete(kernels, installed_kernels) # <<>>
    /\ ret.res \in {"err_io", "no_space"}

\* Every kernel of the list has a remove event in the latest command.
AllAttempted(list_) == \A i \in 1..Len(list_) : Did("remove", list_[i])

\* C12: when remove fails for one obsoleted kernel during update, remove is
\* still attempted for every other obsoleted kernel of the installed list:
\* once update has stopped, each of them has a remove event.
C12_RemovalGoesOn ==
    (InUpdate /\ pc = "idle" /\ FailedAt("remove") # {}) =>
        AllAttempted(Obsolete(kernels, installed_kernels))

\* The names of the installed kernels, as list_installed finds them.
InstalledNames(world) ==
    UNION { { r.val[i].entry : i \in 1..Len(r.val) } : r \in InstalledLists(gen, world) }

\* C13: when update succeeded and is run again by a new process (lists
\* scanned again, available kernels and source files unchanged) and succeeds,
\* the installed kernels, the entry files and the default pointer are what the
\* first run left.
C13_UpdateTwice ==
    (ops >= 2 /\ UpdateReturned("ok")) =>
        /\ InstalledNames(w) = InstalledNames(w0)
        /\ DOMAIN w.entries = DOMAIN w0.entries
        /\ w.loaderDefault = w0.loaderDefault

C13_Witness ==
    /\ ops >= 2 /\ UpdateReturned("ok")
    /\ Len(events) >= 2
    /\ kernels # <<>>
    /\ InstalledNames(w) # {}
    /\ w.loaderDefault = Some(DefaultId(gen, kernels[1]))
    /\ \E n \in Pool : ~Exists(w.entries, EntryFile(gen, K(gen, n), DefaultProfile))

\* The n newest kernels of a list that is sorted newest first.
Newest(list_, n) == { list_[j].entry : j \in 1..Min(n, Len(list_)) }

\* C14: with a keep count N configured, a successful update has installed
\* only the N newest kernels of the available list (all of them when there
\* are fewer than N).
C14_KeepNewest ==
    \A keep \in Keeps :
        (IsSome(keep) /\ UpdateReturned("ok")) =>
            \A i \in 1..Len(events) :
                events[i].op = "install" => events[i].k \in Newest(kernels, Unwrap(keep))

\* The ESP of a world: the two directories, their files, and the default
\* pointer in loader.conf and in the store.
Esp(world) ==
    <<world.destDir, world.dest, world.entriesDir, world.entries, world.loaderDefault,
      world.sbconf.default>>

\* C15: install with the install directory missing, and make_config with the
\* entries directory missing, return the path error and leave every file of
\* the ESP and the default pointer as they were; so does
\* install_and_make_config when it stops in install.
C15_PathNotInitialized ==
    \A n \in Pool :
        /\ ((Ran("install", n) \/ Ran("install_and_make_config", n)) /\ ~w0.destDir) =>
              (ret.res = "err_path" /\ Esp(w) = Esp(w0))
        /\ (Ran("make_config", n) /\ ~w0.entriesDir) =>
              (ret.res = "err_path" /\ Esp(w) = Esp(w0))

C15_Witness ==
    /\ Ran("install", K2) /\ ~w0.destDir /\ w0.entriesDir
    /\ ret.res = "err_path" /\ gen = "generic"
    /\ Exists(w0.boot, K(gen, K2).vmlinux)

\* C16: install of a kernel whose source initrd does not exist succeeds when
\* no transfer fails: the absence of the source initrd alone never makes
\* install fail, whatever the install directory holds.
C16_InitrdIsOptional ==
    \A n \in Pool :
        (Ran("install", n) /\ w0.destDir /\ faults = 0
           /\ Exists(w0.boot, K(gen, n).vmlinux)
           /\ ~Exists(w0.boot, K(gen, n).initrd))
        => ret.res = "ok"

C16_Witness ==
    /\ Ran("install", K3) /\ ret.res = "ok" /\ faults = 0
    /\ ~Exists(w0.boot, K(gen, K3).initrd)
    /\ Exists(w0.dest, K(gen, K3).initrd)
    /\ gen = "generic"

\* The lines of k's entry file in a world, and whether one names k's initrd.
EntryOn(world, k) == world.entries[EntryFile(gen, k, DefaultProfile)]
NamesInitrd(lines, k) == \E i \in 1..Len(lines) : lines[i] = Line("initrd", k.initrd)

\* C17: after install_and_make_config succeeded for a kernel whose source
\* initrd is absent, the entry it wrote has no initrd line naming the kernel's
\* initrd, whatever the install directory held before.
C17_NoInitrdLineWithoutSource ==
    \A n \in Pool :
        (Ran("install_and_make_config", n) /\ ret.res = "ok"
           /\ ~Exists(w0.boot, K(gen, n).initrd)
           /\ ~HasEntry(w0, K(gen, n)) /\ HasEntry(w, K(gen, n)))
        => ~NamesInitrd(EntryOn(w, K(gen, n)), K(gen, n))

\* C18: after a successful install the microcode image is in the ESP install
\* directory exactly when it exists at its source path.
C18_UcodeFollowsSource ==
    \A n \in Pool :
        (Ran("install", n) /\ ret.res = "ok")
        => (Exists(w.dest, UCODE) <=> Exists(w0.boot, UCODE))

\* make_config of K(gen, n) with these inputs is the step taken.
MakeConfigStep(n, force_write, overwrite, ios) ==
    /\ pc = "idle"
    /\ One("make_config", K(gen, n),
           make_config(gen, w, K(gen, n), force_write, overwrite, ios.entry), NFaults(ios))

\* C19: make_config(force_write = false) for a kernel whose entry file exists,
\* with the overwrite not confirmed, leaves that kernel's entry files as they were.
C19_KeepsUnconfirmedEntry ==
    [][ \A n \in Pool, ios \in IosOne :
          (HasEntry(w, K(gen, n)) /\ MakeConfigStep(n, FALSE, FALSE, ios))
          => \A p \in Profiles :
                Read(w'.entries, EntryFile(gen, K(gen, n), p))
                  = Read(w.entries, EntryFile(gen, K(gen, n), p)) ]_vars

\* What each line of an entry is: its key, with the two initrd lines told apart.
RECURSIVE Layout(_, _)
Layout(lines, k) ==
    IF lines = <<>> THEN <<>>
    ELSE <<IF Head(lines) = Line("initrd", UCODE) THEN "ucode"
           ELSE IF Head(lines) = Line("initrd", k.initrd) THEN "initrd"
           ELSE Head(lines).t>> \o Layout(Tail(lines), k)

\* The layout the files of an install directory call for.
LayoutFor(dest, k) ==
    <<"title", "linux">>
      \o (IF Exists(dest, UCODE) THEN <<"ucode">> ELSE <<>>)
      \o (IF Exists(dest, k.initrd) THEN <<"initrd">> ELSE <<>>)
      \o <<"options">>

\* C20: an entry written by make_config has the lines title, linux, microcode
\* initrd, kernel initrd, options in this order, each of the two initrd lines
\* exactly when its file is in the ESP install directory.
C20_EntryLayout ==
    [][ \A n \in Pool, force_write \in BOOLEAN, overwrite \in BOOLEAN, ios \in IosOne :
          (/\ MakeConfigStep(n, force_write, overwrite, ios)
           /\ ret'.res = "ok"
           /\ force_write \/ overwrite \/ ~HasEntry(w, K(gen, n)))
          => /\ HasEntry(w', K(gen, n))
             /\ Layout(EntryOn(w', K(gen, n)), K(gen, n)) = LayoutFor(w.dest, K(gen, n)) ]_vars

\* C21: when the write of the entry is incomplete, make_config deletes the
\* incomplete entry file and returns the no-space error; it never returns
\* success with a truncated entry left.
C21_ShortEntryIsDeleted ==
    [][ \A n \in Pool, force_write \in BOOLEAN, overwrite \in BOOLEAN, ios \in IosOne :
          (/\ MakeConfigStep(n, force_write, overwrite, ios)
           /\ w.entriesDir /\ ios.entry.kind = "short"
           /\ force_write \/ overwrite \/ ~HasEntry(w, K(gen, n)))
          => /\ ret'.res = "no_space"
             /\ ~HasEntry(w', K(gen, n)) ]_vars

\* install of K(gen, n) with these transfers is the step taken.
InstallStep(n, ios) ==
    /\ pc = "idle"
    /\ One("install", K(gen, n), install(gen, w, K(gen, n), ios), NFaults(ios))

\* The file a transfer of install writes, and a file cut short of its source.
FileOf(k, slot) ==
    IF slot = "vmlinux" THEN k.vmlinux ELSE IF slot = "initrd" THEN k.initrd ELSE UCODE

Truncated(world, f) ==
    /\ Exists(world.boot, f) /\ Exists(world.dest, f)
    /\ Len(world.dest[f]) < Len(world.boot[f])
    /\ world.dest[f] = Take(world.boot[f], Len(world.dest[f]))

\* C22: when a transfer of install (image, initrd, microcode) is short,
\* install returns an error and the truncated file is not left on the ESP.
C22_ShortTransferFails ==
    [][ \A n \in Pool, ios \in IosOne, t \in Slots \ {"entry"} :
          (/\ InstallStep(n, ios)
           /\ ios[t].kind = "short"
           /\ Exists(w.boot, FileOf(K(gen, n), t))
           /\ Read(w'.dest, FileOf(K(gen, n), t)) # Read(w.dest, FileOf(K(gen, n), t)))
          => /\ ret'.res # "ok"
             /\ ~Truncated(w', FileOf(K(gen, n), t)) ]_vars

\* ------------------------------------------------------------------ claims on the parser

\* Both names parsed.
BothParsed == pv.done /\ pv.pa.ok /\ pv.pb.ok

\* The order of (major, minor, patch) of two versions: -1, 0, 1.
TripleCmp(x, y) ==
    IF NumCmp(x.major, y.major) # 0 THEN NumCmp(x.major, y.major)
    ELSE IF NumCmp(x.minor, y.minor) # 0 THEN NumCmp(x.minor, y.minor)
    ELSE NumCmp(x.patch, y.patch)

\* C23: when (major, minor, patch) of a is greater than that of b, parse(a) is
\* greater than parse(b), and so is the kernel of a, whatever the tags,
\* release counters and suffixes are.
C23_NumbersDecide ==
    (BothParsed /\ TripleCmp(pv.pa.val, pv.pb.val) = 1)
    => /\ pv.cmp = 1
       /\ \A g \in Gens : KernelCmp(pv.kernel[g].val, pv.other[g].val) = 1

C23_Witness ==
    /\ BothParsed /\ pv.cmp = 1
    /\ pv.pa.val.major = pv.pb.val.major /\ pv.pa.val.minor = pv.pb.val.minor
    /\ pv.pa.val.patch = <<"1", "2">> /\ pv.pb.val.patch = <<"0">>
    /\ ~IsSome(pv.pa.val.rc) /\ IsSome(pv.pb.val.rc)
    /\ ~IsSome(pv.pa.val.rel) /\ IsSome(pv.pb.val.rel)

\* C24: of two versions with equal major, minor and patch, the one without a
\* release-candidate tag is greater than the one with a tag.
C24_FinalAboveCandidate ==
    (BothParsed /\ TripleCmp(pv.pa.val, pv.pb.val) = 0
       /\ ~IsSome(pv.pa.val.rc) /\ IsSome(pv.pb.val.rc))
    => pv.cmp = 1

\* major.minor[.patch][-rcK] of the built names.
Heads ==
    { ma \o <<".">> \o mi \o pa \o r :
        ma \in Majors, mi \in Minors, pa \in Patches, r \in Rcs }

\* C25: in a name where '-N' (digits) follows major.minor[.patch][-rcK], parse
\* yields release = N and a local suffix without '-N', both when a '-suffix'
\* follows and when '-N' ends the name.
C25_ReleaseIsCaptured ==
    pv.done =>
        \A h \in Heads, re \in Rels \ {<<>>}, su \in Suffixes :
            pv.a = h \o re \o su
            => /\ pv.pa.ok
               /\ pv.pa.val.rel = Some(StripZeros(Tail(re)))
               /\ pv.pa.val.localversion = su

\* Whether h is major.minor[.patch][-rcK] and nothing else.
AfterDigits(t) == Drop(t, LeadingDigits(t))
AfterDot(t) ==
    IF StartsWith(t, <<".">>) /\ LeadingDigits(Tail(t)) > 0 THEN AfterDigits(Tail(t)) ELSE t
AfterRc(t) ==
    IF StartsWith(t, <<"-", "r", "c">>) /\ LeadingDigits(Drop(t, 3)) > 0
    THEN AfterDigits(Drop(t, 3)) ELSE t

StartsAsVersion(t) ==
    /\ LeadingDigits(t) > 0
    /\ StartsWith(AfterDigits(t), <<".">>)
    /\ LeadingDigits(Tail(AfterDigits(t))) > 0

IsHead(h) == StartsAsVersion(h) /\ AfterRc(AfterDot(AfterDot(AfterDigits(h)))) = <<>>

\* The token a suffix starts with: what stands between its '-' and the next '-'.
FirstToken(su) ==
    IF Find(Tail(su), <<"-">>) = 0 THEN Tail(su) ELSE Take(Tail(su), Find(Tail(su), <<"-">>) - 1)

AllDigits(t) == t # <<>> /\ LeadingDigits(t) = Len(t)

\* The name is a head followed by a suffix whose first token is not a number.
SplitsAt(name, i) ==
    /\ IsHead(Take(name, i))
    /\ StartsWith(Drop(name, i), <<"-">>)
    /\ ~AllDigits(FirstToken(Drop(name, i)))
    /\ \A j \in (i + 1)..Len(name) : ~IsHead(Take(name, j))

\* C26: the local suffix is the unconsumed end of the name, with its leading
\* separator, and a token after the version that is not purely numeric stays
\* whole in the local suffix, with no release.
C26_SuffixIsTheRemainder ==
    (pv.done /\ pv.pa.ok) =>
        /\ Len(pv.pa.val.localversion) <= Len(pv.a)
        /\ Drop(pv.a, Len(pv.a) - Len(pv.pa.val.localversion)) = pv.pa.val.localversion
        /\ \A i \in 1..Len(pv.a) :
               SplitsAt(pv.a, i)
               => /\ pv.pa.val.rel = None
                  /\ pv.pa.val.localversion = Drop(pv.a, i)

\* A '.patch' follows major.minor.
PatchFollows(t) ==
    LET r == AfterDigits(Tail(AfterDigits(t)))
    IN  StartsWith(r, <<".">>) /\ LeadingDigits(Tail(r)) > 0

\* C27: parse succeeds on every name that starts with digits, '.', digits,
\* with patch = 0 when no '.patch' follows, and fails on every other name.
C27_ParsesExactlyVersions ==
    pv.done =>
        /\ StartsAsVersion(pv.a) =>
              /\ pv.pa.ok
              /\ ~PatchFollows(pv.a) => pv.pa.val.patch = <<"0">>
        /\ ~StartsAsVersion(pv.a) => ~pv.pa.ok

\* The digits of major and of minor are numbers a u64 holds.
Fits(d) == NumCmp(StripZeros(d), U64Max) <= 0
NumbersFit(t) ==
    /\ Fits(Take(t, LeadingDigits(t)))
    /\ Fits(Take(Tail(AfterDigits(t)), LeadingDigits(Tail(AfterDigits(t)))))

\* C27 as amended: the same, for names whose major and minor fit 64 bits; a
\* name whose major or minor does not fit fails.
C27_ParsesVersionsThatFit ==
    pv.done =>
        /\ (StartsAsVersion(pv.a) /\ NumbersFit(pv.a)) =>
              /\ pv.pa.ok
              /\ ~PatchFollows(pv.a) => pv.pa.val.patch = <<"0">>
        /\ (StartsAsVersion(pv.a) /\ ~NumbersFit(pv.a)) => ~pv.pa.ok
        /\ ~StartsAsVersion(pv.a) => ~pv.pa.ok

C27_Witness ==
    /\ pv.done /\ pv.a = <<"5", ".", "1", "2", "-", "a", "o", "s", "c", "-", "m", "a", "i", "n">>
    /\ pv.pa.ok /\ pv.pa.val.patch = <<"0">>
    /\ pv.pa.val.localversion = <<"-", "a", "o", "s", "c", "-", "m", "a", "i", "n">>

\* C28: the text parse(x) displays as parses again, to the same major, minor,
\* patch, release-candidate tag and release, and to the same local suffix.
C28_DisplayParsesBack ==
    (pv.done /\ pv.pa.ok) =>
        /\ pv.again.ok
        /\ pv.again.val.major = pv.pa.val.major
        /\ pv.again.val.minor = pv.pa.val.minor
        /\ pv.again.val.patch = pv.pa.val.patch
        /\ pv.again.val.rc = pv.pa.val.rc
        /\ pv.again.val.rel = pv.pa.val.rel
        /\ pv.again.val.localversion = pv.pa.val.localversion

C28_Witness ==
    /\ pv.done /\ pv.pa.ok /\ pv.again.ok /\ pv.again.val = pv.pa.val
    /\ pv.shown # pv.a
    /\ IsSome(pv.pa.val.rc) /\ IsSome(pv.pa.val.rel) /\ pv.pa.val.localversion # <<>>

\* C29: the image name, the initrd name and the entry id of a kernel hold the
\* raw name in place of every {VERSION}, not the version as it displays.
C29_TemplatesTakeTheRawName ==
    (pv.done /\ pv.pa.ok) =>
        \A g \in Gens :
            /\ pv.kernel[g].ok
            /\ pv.kernel[g].val.vmlinux = <<"v", "m", "l", "i", "n", "u", "z", "-">> \o pv.a
            /\ pv.kernel[g].val.initrd = <<"i", "n", "i", "t", "r", "a", "m", "f", "s", "-">> \o pv.a \o <<".", "i", "m", "g">>
            /\ pv.kernel[g].val.entry = (IF g = "kernel_rs" THEN pv.a \o DotConf ELSE pv.a)
            /\ Find(pv.kernel[g].val.vmlinux, VERSION) = 0
            /\ Find(pv.kernel[g].val.initrd, VERSION) = 0

C29_Witness ==
    /\ pv.done /\ pv.pa.ok /\ pv.a = <<"5", ".", "1", "2", "-", "a", "o", "s", "c", "-", "m", "a", "i", "n">>
    /\ pv.shown = <<"5", ".", "1", "2", ".", "0", "-", "a", "o", "s", "c", "-", "m", "a", "i", "n">>
    /\ pv.kernel["generic"].val.vmlinux = <<"v", "m", "l", "i", "n", "u", "z", "-", "5", ".", "1", "2", "-", "a", "o", "s", "c", "-", "m", "a", "i", "n">>

\* ------------------------------------------------------------------ claims on discovery

\* The directories that hold the three marker files and are named as a version.
Accepted(world) ==
    { n \in DOMAIN world.modules : Markers \subseteq world.modules[n] /\ VersionParse(n).ok }

\* C30: list returns a kernel for a directory of the module tree exactly when
\* the directory holds the three marker files and its name parses; the other
\* directories are skipped, and list neither fails nor drops a kernel for them.
C30_ListTakesCompleteTrees ==
    pc = "listed" =>
        /\ ret.res = "ok"
        /\ Len(kernels) = Cardinality(Accepted(w))
        /\ \A n \in DOMAIN w.modules :
               (\E i \in 1..Len(kernels) : kernels[i] = KernelParse(gen, n).val)
               <=> n \in Accepted(w)

C30_Witness ==
    /\ pc = "listed" /\ Len(kernels) = 2
    /\ DOMAIN w.modules = Pool \cup {Foreign}
    /\ w.modules[Foreign] = Markers
    /\ w.modules[K1] = {"modules.dep", "modules.order"}
    /\ Accepted(w) = {K2, K3}

\* ------------------------------------------------------------------ claims on the installed list

\* The raw name a kernel was parsed from.
NameOf(g, k) == IF g = "kernel_rs" THEN Take(k.entry, Len(k.entry) - Len(DotConf)) ELSE k.entry

NamesOf(g, ks) == { NameOf(g, ks[i]) : i \in 1..Len(ks) }

\* The names n for which the image template expanded with n is a file of dir.
ExpandedIn(dir) ==
    { Drop(f, Len(TemplatePrefix)) :
        f \in { x \in DOMAIN dir : /\ Len(x) > Len(TemplatePrefix)
                                   /\ Take(x, Len(TemplatePrefix)) = TemplatePrefix } }

ListedInstalled == ret.cmd = "list_installed" /\ ret.res = "ok"

\* C31: when list_installed returns a list, the names of its kernels are the
\* names n for which the image template expanded with n is a file of the
\* install directory.
C31_InstalledAreTheExpansions ==
    ListedInstalled => NamesOf(gen, installed_kernels) = ExpandedIn(w.dest)

\* Newest first: no element is older than its successor, under Ord of the kernels.
NewestFirst(ks) ==
    /\ \A i \in 1..(Len(ks) - 1) : KernelCmp(ks[i], ks[i + 1]) >= 0
    /\ \A i \in 1..Len(ks) : KernelCmp(ks[1], ks[i]) >= 0

\* C32: the lists list_installed and list return are in non-increasing version
\* order, so their first element is a newest kernel.
C32_ListsAreNewestFirst ==
    /\ pc \in {"installed", "available"} => NewestFirst(installed_kernels)
    /\ pc = "available" => NewestFirst(kernels)

C32_Witness ==
    /\ pc = "available"
    /\ NamesOf(gen, kernels) = Pool
    /\ NamesOf(gen, installed_kernels) = Pool
    /\ NameOf(gen, kernels[1]) = K1 /\ NameOf(gen, installed_kernels[1]) = K1
    /\ NameOf(gen, kernels[3]) = K2 /\ NameOf(gen, installed_kernels[3]) = K2

\* The versions list_installed captures from the files of dir and that parse.
Recovered(dir) ==
    { Unwrap(Captured(f)) :
        f \in { x \in DOMAIN dir : IsSome(Captured(x)) /\ VersionParse(Unwrap(Captured(x))).ok } }

\* C33: list_installed succeeds whatever the captured texts are, and returns
\* the kernel of every file whose captured text parses.
C33_UnparsableIsSkipped ==
    pc # "main" =>
        /\ pc # "exit"
        /\ Recovered(w.dest) \subseteq NamesOf(gen, installed_kernels)

\* ------------------------------------------------------------------ claims on the target

\* The position a numeric target names, when it is a position of the list.
PositionOf(target, ks) == { j \in 1..Len(ks) : Decimal(j) = StripZeros(target) }

\* C34: a numeric target n selects the kernel at position n of the list when
\* 1 <= n <= L, and every other numeric target ends in the invalid-index
\* error, without a panic, an underflow or a kernel.
C34_NumericTargetIsChecked ==
    (sel.done /\ sel.op = "parse_num_or_filename" /\ AllDigits(sel.input)) =>
        /\ \A j \in PositionOf(sel.input, sel.shown) :
               sel.res = "ok" /\ sel.kernel = Some(sel.shown[j])
        /\ PositionOf(sel.input, sel.shown) = {} =>
               sel.res = "invalid_index" /\ sel.kernel = None /\ ~sel.wrapped

\* C39: select_installed_kernel returns the element of the installed list at
\* the index chosen in the displayed installed list, whatever the available
\* list holds, and does not index out of bounds.
C39_SelectsFromTheInstalledList ==
    (sel.done /\ sel.op = "select_installed_kernel" /\ installed_kernels # <<>>) =>
        /\ sel.res = "ok"
        /\ sel.kernel = Some(installed_kernels[sel.input + 1])

\* The same for select_kernel of util.rs.
UtilSelectsFromTheDisplayedList ==
    (sel.done /\ sel.op = "util_select_kernel" /\ sel.shown # <<>>) =>
        /\ sel.res = "ok"
        /\ sel.kernel = Some(sel.shown[sel.input + 1])

\* ------------------------------------------------------------------ claims on the lifecycle

\* The default pointer of the loader is empty or names an entry file of the ESP.
PointerNamesEntry(world) ==
    world.loaderDefault = None \/ Exists(world.entries, Unwrap(world.loaderDefault))

\* C35: a command that starts with the default pointer empty or naming an
\* existing entry file leaves it empty or naming an existing entry file, so
\* that the same holds after every sequence of commands from such a start.
C35_PointerNeverDangles ==
    (pc = "idle" /\ ret.cmd # "none" /\ PointerNamesEntry(w0)) => PointerNamesEntry(w)

\* The entry files of a kernel, one per profile, that are on the ESP.
EntriesOf(world, k) ==
    { p \in Profiles : Exists(world.entries, EntryFile(gen, k, p)) }

\* C36: once remove(k) has run in an update, the make_config of the other
\* kernels that follows does not bring an entry file of k back: while the
\* update goes on and after it, k has no entry file.
C36_RemovedEntriesStayRemoved ==
    \A n \in Pool :
        (InUpdate /\ Did("remove", K(gen, n)) /\ ~Did("install", K(gen, n)))
        => EntriesOf(w, K(gen, n)) = {}

\* The names of the entry files of a kernel, one per profile.
EntryFilesOf(k) == { EntryFile(gen, k, p) : p \in Profiles }

\* The step is remove(k), run after the install_and_make_config(k) that was the
\* latest command, succeeded, and found k not installed.
RemoveAfterInstall(n) ==
    /\ Ran("install", n) /\ ret.res = "ok"
    /\ ~HasImage(w0, K(gen, n))
    /\ ret'.cmd = "remove"
    /\ events' = <<Event("remove", K(gen, n), ret'.res)>>

\* C37: install_and_make_config(k) on a kernel that is not installed leaves
\* one entry file of k per profile, and the remove(k) that follows deletes
\* exactly those: afterwards no image, initrd or entry file of k is on the
\* ESP, list_installed does not report k, and every other entry file is still
\* there.
C37_RemoveUndoesInstall ==
    [][ \A n \in Pool :
          RemoveAfterInstall(n) =>
              /\ EntriesOf(w, K(gen, n)) = Profiles
              /\ ~HasImage(w', K(gen, n)) /\ ~HasInitrd(w', K(gen, n))
              /\ EntriesOf(w', K(gen, n)) = {}
              /\ \A r \in InstalledLists(gen, w') : ~Named(r.val, K(gen, n).entry)
              /\ DOMAIN w'.entries = DOMAIN w.entries \ EntryFilesOf(K(gen, n)) ]_vars

C37_Witness ==
    /\ Ran("remove", K1) /\ ops = 2
    /\ HasImage(w0, K(gen, K1)) /\ HasInitrd(w0, K(gen, K1)) /\ HasEntry(w0, K(gen, K1))
    /\ ~HasImage(w, K(gen, K1)) /\ ~HasInitrd(w, K(gen, K1)) /\ ~HasEntry(w, K(gen, K1))

\* ------------------------------------------------------------------ claims on release candidates

\* The number of a release-candidate tag "rcN".
CandidateNumber(tag_) == StripZeros(Drop(tag_, 2))

\* C38: of two versions with equal major, minor and patch that both carry a
\* release-candidate tag, the one with the larger candidate number is the
\* greater, whatever the number of digits.
C38_CandidatesCompareByNumber ==
    (BothParsed /\ TripleCmp(pv.pa.val, pv.pb.val) = 0
       /\ IsSome(pv.pa.val.rc) /\ IsSome(pv.pb.val.rc)
       /\ NumCmp(CandidateNumber(Unwrap(pv.pa.val.rc)),
                 CandidateNumber(Unwrap(pv.pb.val.rc))) = 1)
    => pv.cmp = 1

====
